---- MODULE Spec2Model ----
(***************************************************************************)
(* A model of the SELFIES decoder of src/terminator/selfies.py: the bond    *)
(* constraint registry, the atom symbol grammar, the derivation state      *)
(* rules, the index codec, the symbol streams, the recursive derivation    *)
(* walk, the ring resolver and the decoder that drives them.               *)
(*                                                                         *)
(* Python strings are sequences of one-character strings, indexed from 0   *)
(* by the helpers below; table keys and returned SMILES are TLA+ strings.  *)
(* A value a function computes once and reads several times is handed to   *)
(* a continuation operator as a parameter, one operator per stage.         *)
(***************************************************************************)
EXTENDS Integers, Sequences, FiniteSets, TLC

(***************************************************************************)
(* Python string helpers                                                   *)
(***************************************************************************)
Min2(a, b) == IF a <= b THEN a ELSE b

Max2(a, b) == IF a >= b THEN a ELSE b

\* s[a:b] for 0 <= a, 0 <= b
Slice(s, a, b) == SubSeq(s, a + 1, Min2(b, Len(s)))

\* s[a:]
SliceFrom(s, a) == SubSeq(s, a + 1, Len(s))

\* s[i] for an index known to be in range
Ch(s, i) == s[i + 1]

\* s[-k] for a string of at least k characters
ChEnd(s, k) == s[Len(s) - k + 1]

RECURSIVE Str(_)
Str(s) == IF s = <<>> THEN "" ELSE Head(s) \o Str(Tail(s))

RECURSIVE Concat(_)
Concat(ss) == IF ss = <<>> THEN <<>> ELSE Head(ss) \o Concat(Tail(ss))

\* sub in s
RECURSIVE FindSub(_, _, _)
FindSub(s, sub, i) ==
    IF i + Len(sub) > Len(s) THEN -1
    ELSE IF Slice(s, i, i + Len(sub)) = sub THEN i
    ELSE FindSub(s, sub, i + 1)

Contains(s, sub) == FindSub(s, sub, 0) >= 0

\* s.find(c, from)
Find(s, c, from) ==
    IF \E i \in from..(Len(s) - 1) : Ch(s, i) = c
    THEN CHOOSE i \in from..(Len(s) - 1) :
             Ch(s, i) = c /\ \A j \in from..(i - 1) : Ch(s, j) # c
    ELSE -1

Digits == {"0", "1", "2", "3", "4", "5", "6", "7", "8", "9"}

Letters ==
    {"A", "B", "C", "D", "E", "F", "G", "H", "I", "J", "K", "L", "M", "N", "O",
     "P", "Q", "R", "S", "T", "U", "V", "W", "X", "Y", "Z",
     "a", "b", "c", "d", "e", "f", "g", "h", "i", "j", "k", "l", "m", "n", "o",
     "p", "q", "r", "s", "t", "u", "v", "w", "x", "y", "z"}

DigitVal(c) ==
    CASE c = "0" -> 0 [] c = "1" -> 1 [] c = "2" -> 2 [] c = "3" -> 3
      [] c = "4" -> 4 [] c = "5" -> 5 [] c = "6" -> 6 [] c = "7" -> 7
      [] c = "8" -> 8 [] c = "9" -> 9

DigitChar(d) == <<"0", "1", "2", "3", "4", "5", "6", "7", "8", "9">>[d + 1]

\* int(s) for a run of digits
RECURSIVE IntOf(_)
IntOf(s) ==
    IF s = <<>> THEN 0
    ELSE 10 * IntOf(SubSeq(s, 1, Len(s) - 1)) + DigitVal(s[Len(s)])

\* str(n) for n >= 0
RECURSIVE StrOf(_)
StrOf(n) ==
    IF n < 10 THEN <<DigitChar(n)>>
    ELSE StrOf(n \div 10) \o <<DigitChar(n % 10)>>

\* "{:+}".format(n)
SignedStr(n) == IF n >= 0 THEN <<"+">> \o StrOf(n) ELSE <<"-">> \o StrOf(0 - n)

(***************************************************************************)
(* The bond constraint tables                                              *)
(***************************************************************************)
default_bond_constraints ==
    ("H" :> 1) @@ ("F" :> 1) @@ ("Cl" :> 1) @@ ("Br" :> 1) @@ ("I" :> 1) @@
    ("O" :> 2) @@ ("O+1" :> 3) @@ ("O-1" :> 1) @@
    ("N" :> 3) @@ ("N+1" :> 4) @@ ("N-1" :> 2) @@
    ("C" :> 4) @@ ("C+1" :> 5) @@ ("C-1" :> 3) @@
    ("P" :> 5) @@ ("P+1" :> 6) @@ ("P-1" :> 4) @@
    ("S" :> 6) @@ ("S+1" :> 7) @@ ("S-1" :> 5) @@
    ("?" :> 8)

\* dict.update: the entries of u replace or extend those of t
Update(t, u) == u @@ t

octet_rule_bond_constraints ==
    Update(default_bond_constraints,
           ("S" :> 2) @@ ("S+1" :> 3) @@ ("S-1" :> 1) @@
           ("P" :> 3) @@ ("P+1" :> 4) @@ ("P-1" :> 2))

hypervalent_bond_constraints ==
    Update(default_bond_constraints,
           ("Cl" :> 7) @@ ("Br" :> 7) @@ ("I" :> 7) @@ ("N" :> 5))

\* _bond_constraints.get(key, _bond_constraints['?'])
Lookup(T, key) == IF key \in DOMAIN T THEN T[key] ELSE T["?"]

(***************************************************************************)
(* Helper functions                                                        *)
(***************************************************************************)
get_num_from_bond(bond_symbol) ==
    IF bond_symbol = <<"=">> THEN 2
    ELSE IF bond_symbol = <<"#">> THEN 3
    ELSE 1

\* ('', '=', '#')[n - 1]; Python indexes n = 0 from the end of the tuple
get_bond_from_num(n) ==
    CASE n = 1 -> <<>>
      [] n = 2 -> <<"=">>
      [] n = 3 -> <<"#">>
      [] n = 0 -> <<"#">>

(***************************************************************************)
(* The atom symbol grammar. An access past the end of the string is the    *)
(* IndexError of the source: err = "IndexError".                           *)
(***************************************************************************)
RECURSIVE SkipDigits(_, _)
\* while atom_symbol[i].isdigit(): i += 1   (-1: ran past the end)
SkipDigits(a, i) ==
    IF i >= Len(a) THEN -1
    ELSE IF Ch(a, i) \in Digits THEN SkipDigits(a, i + 1)
    ELSE i

\* lines 385-388, with i the index after the isotope number
ElementAt(atom_symbol, i) ==
    IF i < 0 \/ i + 1 >= Len(atom_symbol)
    THEN [err |-> "IndexError", start |-> 0, end |-> 0]
    ELSE IF Ch(atom_symbol, i + 1) \in Letters /\ Ch(atom_symbol, i + 1) # "H"
         THEN [err |-> "", start |-> i, end |-> i + 2]
         ELSE [err |-> "", start |-> i, end |-> i + 1]

\* [err, start, end]
find_element(atom_symbol) ==
    IF Ch(atom_symbol, 0) # "["
    THEN [err |-> "", start |-> 0, end |-> Len(atom_symbol)]
    ELSE ElementAt(atom_symbol, SkipDigits(atom_symbol, 1))

AtomError == [err |-> "IndexError", element |-> <<>>, h_count |-> 0, charge |-> 0]

RECURSIVE SignRun(_, _, _)
\* while atom_symbol[i] in ('+', '-'): charge += 1 or -1; i += 1
SignRun(a, i, charge) ==
    IF i >= Len(a) THEN [err |-> "IndexError", charge |-> charge]
    ELSE IF Ch(a, i) = "+" THEN SignRun(a, i + 1, charge + 1)
    ELSE IF Ch(a, i) = "-" THEN SignRun(a, i + 1, charge - 1)
    ELSE [err |-> "", charge |-> charge]

\* lines 433-437: charge *= int(atom_symbol[s:i]), e the end of the digits
ChargeDigits(a, s, e, charge) ==
    IF e < 0 THEN [err |-> "IndexError", charge |-> 0]
    ELSE [err |-> "", charge |-> charge * IntOf(Slice(a, s, e))]

\* lines 427-437, after the first sign: charge is 1 or -1, j the next index
ChargeTail(a, j, charge) ==
    IF j >= Len(a) THEN [err |-> "IndexError", charge |-> 0]
    ELSE IF Ch(a, j) \in {"+", "-"} THEN SignRun(a, j, charge)
    ELSE IF Ch(a, j) \in Digits THEN ChargeDigits(a, j, SkipDigits(a, j), charge)
    ELSE [err |-> "", charge |-> charge]

\* lines 423-437, the charge part from atom_symbol[i]: [err, charge]
ParseCharge(a, i) ==
    IF i >= Len(a) THEN [err |-> "IndexError", charge |-> 0]
    ELSE IF Ch(a, i) = "+" THEN ChargeTail(a, i + 1, 1)
    ELSE IF Ch(a, i) = "-" THEN ChargeTail(a, i + 1, -1)
    ELSE [err |-> "", charge |-> 0]

\* lines 414-421, the hydrogen part from atom_symbol[i]: [err, h_count, i]
ParseHydrogens(a, i) ==
    IF i >= Len(a) THEN [err |-> "IndexError", h_count |-> 0, i |-> i]
    ELSE IF Ch(a, i) # "H" THEN [err |-> "", h_count |-> 0, i |-> i]
    ELSE IF i + 1 >= Len(a) THEN [err |-> "IndexError", h_count |-> 0, i |-> i]
    ELSE IF Ch(a, i + 1) \in Digits
         THEN [err |-> "", h_count |-> DigitVal(Ch(a, i + 1)), i |-> i + 2]
         ELSE [err |-> "", h_count |-> 1, i |-> i + 1]

\* lines 409-412, one optional '@': the index after it, -1 past the end
SkipAt(a, i) ==
    IF i < 0 \/ i >= Len(a) THEN -1
    ELSE IF Ch(a, i) = "@" THEN i + 1 ELSE i

\* line 439
AtomRecord(a, fe, h, c) ==
    IF c.err # "" THEN AtomError
    ELSE [err |-> "", element |-> Slice(a, fe.start, fe.end),
          h_count |-> h.h_count, charge |-> c.charge]

\* lines 423-439, h the hydrogen part
ParseFromHydrogens(a, fe, h) ==
    IF h.err # "" THEN AtomError ELSE AtomRecord(a, fe, h, ParseCharge(a, h.i))

\* lines 414-439, i the index after the chirality
ParseFromChirality(a, fe, i) ==
    IF i < 0 THEN AtomError ELSE ParseFromHydrogens(a, fe, ParseHydrogens(a, i))

\* lines 406-439, fe the element found
ParseFromElement(a, fe) ==
    IF fe.err # "" THEN AtomError
    ELSE ParseFromChirality(a, fe, SkipAt(a, SkipAt(a, fe.end)))

\* [err, element, h_count, charge]
parse_atom_symbol(atom_symbol) ==
    IF Len(atom_symbol) = 0 THEN AtomError
    ELSE IF Ch(atom_symbol, 0) # "["
    THEN [err |-> "", element |-> atom_symbol, h_count |-> 0, charge |-> 0]
    ELSE ParseFromElement(atom_symbol, find_element(atom_symbol))

(***************************************************************************)
(* Symbols of the SELFIES alphabet used below                              *)
(***************************************************************************)
epsilon == <<"[", "e", "p", "s", "i", "l", "o", "n", "]">>

nop == <<"[", "n", "o", "p", "]">>

symC == <<"[", "C", "]">>

symDoubleC == <<"[", "=", "C", "]">>

symTripleC == <<"[", "#", "C", "]">>

symO == <<"[", "O", "]">>

symN == <<"[", "N", "]">>

symDoubleN == <<"[", "=", "N", "]">>

symS == <<"[", "S", "]">>

symDoubleS == <<"[", "=", "S", "]">>

symP == <<"[", "P", "]">>

symF == <<"[", "F", "]">>

symCH4 == <<"[", "C", "H", "4", "e", "x", "p", "l", "]">>

symOH1 == <<"[", "O", "H", "1", "e", "x", "p", "l", "]">>

symNplus == <<"[", "N", "+", "e", "x", "p", "l", "]">>

symEmpty == <<"[", "]">>

symRing1 == <<"[", "R", "i", "n", "g", "1", "]">>

symRing2 == <<"[", "R", "i", "n", "g", "2", "]">>

symExplRing1 == <<"[", "E", "x", "p", "l", "=", "R", "i", "n", "g", "1", "]">>

Branch(L, X) ==
    <<"[", "B", "r", "a", "n", "c", "h", DigitChar(L), "_", DigitChar(X), "]">>

(***************************************************************************)
(* Derivation state rules. T is the table _bond_constraints refers to.     *)
(***************************************************************************)
BondChars == {"/", "\\", "=", "#"}

\* lines 201-203
LeadingBond(symbol) == IF Ch(symbol, 1) \in BondChars THEN <<Ch(symbol, 1)>> ELSE <<>>

\* lines 206-209: the SMILES symbol of a SELFIES atom symbol
SmilesSymbol(symbol, bond) ==
    IF SliceFrom(symbol, Max2(0, Len(symbol) - 5)) = <<"e", "x", "p", "l", "]">>
    THEN <<"[">> \o Slice(symbol, 1 + Len(bond), Len(symbol) - 5) \o <<"]">>
    ELSE Slice(symbol, 1 + Len(bond), Len(symbol) - 1)

\* lines 214-217: element, or "{}{:+}".format(element, charge)
AtomOrIon(element, charge) ==
    IF charge = 0 THEN Str(element) ELSE Str(element \o SignedStr(charge))

\* a variant of TooManyHs that lets an atom keep no bond for its parent
TooManyHsOnlyAbove(h_count, max_bonds, state) == h_count > max_bonds

\* line 221: if (h_count > max_bonds) or (h_count == max_bonds and state > 0)
TooManyHs(h_count, max_bonds, state) ==
    (h_count > max_bonds) \/ (h_count = max_bonds /\ state > 0)

\* lines 233-234: the bond order an atom is attached with at state > 0
CappedBondNum(bond_num, state, max_bonds) ==
    IF bond_num > Min2(state, max_bonds) THEN Min2(state, max_bonds) ELSE bond_num

\* line 235: the bond character, re-derived when the order was capped
CappedBond(bond, state, max_bonds) ==
    IF get_num_from_bond(bond) > Min2(state, max_bonds)
    THEN get_bond_from_num(Min2(state, max_bonds))
    ELSE bond

\* a variant of AfterBond that keeps 0 as the next state
AfterBondPlain(max_bonds, bond_num) == max_bonds - bond_num

\* lines 237-239
AfterBond(max_bonds, bond_num) ==
    IF max_bonds - bond_num = 0 THEN -1 ELSE max_bonds - bond_num

\* lines 229-241, max_bonds the capacity left after the hydrogens
NextStateFrom(bond, smiles_symbol, max_bonds, state) ==
    IF state = 0
    THEN [err |-> "", text |-> smiles_symbol, next |-> max_bonds]
    ELSE [err |-> "", text |-> CappedBond(bond, state, max_bonds) \o smiles_symbol,
          next |-> AfterBond(max_bonds,
                             CappedBondNum(get_num_from_bond(bond), state, max_bonds))]

\* lines 221-241, max_bonds the table's entry
NextStateChecked(bond, smiles_symbol, h_count, max_bonds, state) ==
    IF TooManyHs(h_count, max_bonds, state)
    THEN [err |-> "ValueError", text |-> <<>>, next |-> 0]
    ELSE NextStateFrom(bond, smiles_symbol, max_bonds - h_count, state)

\* lines 214-241, atom the parsed SMILES symbol
NextStateOfAtom(bond, smiles_symbol, atom, state, T) ==
    IF atom.err # "" THEN [err |-> atom.err, text |-> <<>>, next |-> 0]
    ELSE NextStateChecked(bond, smiles_symbol, atom.h_count,
                          Lookup(T, AtomOrIon(atom.element, atom.charge)), state)

\* lines 212-241
NextStateOfSmiles(bond, smiles_symbol, state, T) ==
    NextStateOfAtom(bond, smiles_symbol, parse_atom_symbol(smiles_symbol), state, T)

\* lines 206-241
NextStateWithBond(symbol, bond, state, T) ==
    NextStateOfSmiles(bond, SmilesSymbol(symbol, bond), state, T)

\* a variant of get_next_state with which [epsilon] leaves every state as it is
get_next_state_epsilon_idle(symbol, state, T) ==
    IF symbol = epsilon
    THEN [err |-> "", text |-> <<>>, next |-> state]
    ELSE NextStateWithBond(symbol, LeadingBond(symbol), state, T)

\* [err, text, next]
get_next_state(symbol, state, T) ==
    IF symbol = epsilon
    THEN [err |-> "", text |-> <<>>, next |-> IF state = 0 THEN 0 ELSE -1]
    ELSE NextStateWithBond(symbol, LeadingBond(symbol), state, T)

\* lines 264-269
BranchStates(branch_type, state) ==
    IF 2 <= state /\ state <= 8
    THEN [err |-> "", init |-> Min2(state - 1, branch_type),
          next |-> state - Min2(state - 1, branch_type)]
    ELSE [err |-> "", init |-> -1, next |-> state]

\* lines 261-269
BranchStatesOfType(branch_type, state) ==
    IF ~(1 <= branch_type /\ branch_type <= 3)
    THEN [err |-> "ValueError", init |-> 0, next |-> 0]
    ELSE BranchStates(branch_type, state)

\* a variant of get_next_branch_state that reads the digit before the '_'
get_next_branch_state_by_level(branch_symbol, state) ==
    IF ChEnd(branch_symbol, 4) \notin Digits
    THEN [err |-> "ValueError", init |-> 0, next |-> 0]
    ELSE BranchStatesOfType(DigitVal(ChEnd(branch_symbol, 4)), state)

\* [err, init, next]; int() of a character that is no digit is a ValueError
get_next_branch_state(branch_symbol, state) ==
    IF ChEnd(branch_symbol, 2) \notin Digits
    THEN [err |-> "ValueError", init |-> 0, next |-> 0]
    ELSE BranchStatesOfType(DigitVal(ChEnd(branch_symbol, 2)), state)

(***************************************************************************)
(* The index codec                                                         *)
(***************************************************************************)
_index_alphabet ==
    <<symC, symRing1, symRing2,
      Branch(1, 1), Branch(1, 2), Branch(1, 3),
      Branch(2, 1), Branch(2, 2), Branch(2, 3),
      symO, symN, symDoubleN, symDoubleC, symTripleC, symS, symP>>

\* _alphabet_code.get(c, 0)
AlphabetCode(c) ==
    IF \E i \in 1..Len(_index_alphabet) : _index_alphabet[i] = c
    THEN (CHOOSE i \in 1..Len(_index_alphabet) : _index_alphabet[i] = c) - 1
    ELSE 0

RECURSIVE Pow(_, _)
Pow(b, e) == IF e = 0 THEN 1 ELSE b * Pow(b, e - 1)

\* line 312: the value of the symbol i places from the end
PlaceValue(c, i) == AlphabetCode(c) * Pow(Len(_index_alphabet), i)

RECURSIVE get_n_from_symbols(_)
get_n_from_symbols(symbols) ==
    IF symbols = <<>> THEN 0
    ELSE PlaceValue(Head(symbols), Len(symbols) - 1) + get_n_from_symbols(Tail(symbols))

RECURSIVE LeastFirst(_)
\* lines 328-332: the digits of n, least significant first
LeastFirst(n) ==
    IF n = 0 THEN <<>>
    ELSE <<_index_alphabet[(n % Len(_index_alphabet)) + 1]>>
         \o LeastFirst(n \div Len(_index_alphabet))

RECURSIVE Reversed(_)
\* symbols[::-1]
Reversed(symbols) ==
    IF symbols = <<>> THEN <<>> ELSE Reversed(Tail(symbols)) \o <<Head(symbols)>>

\* a variant of get_symbols_from_n that returns the symbols least significant first
get_symbols_from_n_unreversed(n) ==
    IF n = 0 THEN <<_index_alphabet[1]>> ELSE LeastFirst(n)

get_symbols_from_n(n) ==
    IF n = 0 THEN <<_index_alphabet[1]>> ELSE Reversed(LeastFirst(n))

(***************************************************************************)
(* The state                                                               *)
(***************************************************************************)
VARIABLES
    heap,          \* the table objects: object id -> table (<<>>: no object)
    active,        \* _bond_constraints: the id of the object it refers to
    callerRef,     \* the object the caller holds a reference to, or "none"
    pc,            \* where the program is
    op,            \* the public operation called last
    outcome,       \* how it ended: "ok", "smiles", "None", "ValueError", "IndexError"
    result,        \* the SMILES it returned
    entry_table,   \* the content of the active table when decoder was called
    selfies,       \* decoder: the argument
    constraints,   \* decoder: the constraints argument
    pieces,        \* decoder: the pieces of selfies.split(".") still to translate
    all_smiles,    \* decoder: the translations collected
    exc,           \* the exception in flight
    stack,         \* the activations of _translate_selfies_derive, innermost last
    derived,       \* _translate_selfies: the derived atoms [text, cap, parent]
    branches,      \* _translate_selfies: the branch dict, in insertion order
    rings,         \* _translate_selfies: the ring list
    ring_k,        \* _form_rings_bilocally: the ring tuple to resolve next
    ring_locs,     \* _form_rings_bilocally: the resolved rings, in insertion order
    emitted,       \* per translated piece: its atoms and ring bonds before rendering
    codec_pc,      \* index codec: the call to make next, "off" when not in use
    codec_n,       \* index codec: the integer to encode, or -1
    codec_syms,    \* index codec: the symbol list at hand
    codec_out,     \* index codec: the integer decoded from codec_syms, or -1
    calls,         \* two decoder calls of two threads: what each holds, where it is
    overlap        \* a call began while the other was under way

regVars == <<heap, active, callerRef>>

callVars == <<pc, op, outcome, result, entry_table>>

decVars == <<selfies, constraints, pieces, all_smiles, exc>>

fragVars == <<stack, derived, branches, rings, ring_k, ring_locs, emitted>>

codecVars == <<codec_pc, codec_n, codec_syms, codec_out>>

twoVars == <<calls, overlap>>

vars == <<regVars, callVars, decVars, fragVars, codecVars, twoVars>>

(***************************************************************************)
(* The symbol streams. A generator is [kind, src, pos]: _parse_selfies     *)
(* over a string (pos is left_idx) or _parse_selfies_symbols over a list   *)
(* (pos is the number of items consumed).                                  *)
(***************************************************************************)
_parse_selfies(s) == [kind |-> "str", src |-> s, pos |-> Find(s, "[", 0)]

_parse_selfies_symbols(selfies_symbols) ==
    [kind |-> "list", src |-> selfies_symbols, pos |-> 0]

RECURSIVE StrNext(_, _)
\* lines 529-536, right_idx found
StrNextAt(s, left_idx, right_idx) ==
    IF Ch(s, left_idx) # "[" \/ right_idx = -1
    THEN [err |-> "ValueError", sym |-> <<>>, pos |-> left_idx]
    ELSE IF Slice(s, left_idx, right_idx + 1) # nop
         THEN [err |-> "", sym |-> Slice(s, left_idx, right_idx + 1), pos |-> right_idx + 1]
         ELSE StrNext(s, right_idx + 1)

\* next() of _parse_selfies: [err, sym, pos]
StrNext(s, left_idx) ==
    IF 0 <= left_idx /\ left_idx < Len(s)
    THEN StrNextAt(s, left_idx, Find(s, "]", left_idx + 1))
    ELSE [err |-> "", sym |-> <<>>, pos |-> left_idx]

RECURSIVE ListNext(_, _)
\* next() of _parse_selfies_symbols: [err, sym, pos]
ListNext(l, pos) ==
    IF pos < Len(l)
    THEN IF l[pos + 1] # nop
         THEN [err |-> "", sym |-> l[pos + 1], pos |-> pos + 1]
         ELSE ListNext(l, pos + 1)
    ELSE [err |-> "", sym |-> <<>>, pos |-> pos]

Yielded(gen, r) == [err |-> r.err, sym |-> r.sym, gen |-> [gen EXCEPT !.pos = r.pos]]

\* next(gen): [err, sym, gen]
GenNext(gen) ==
    IF gen.kind = "str" THEN Yielded(gen, StrNext(gen.src, gen.pos))
    ELSE Yielded(gen, ListNext(gen.src, gen.pos))

Prepend(sym, b) == [err |-> b.err, syms |-> <<sym>> \o b.syms, gen |-> b.gen]

RECURSIVE ReadN(_, _)
\* the symbol a just read, and n - 1 more
ReadMore(a, n) ==
    IF a.err # "" THEN [err |-> a.err, syms |-> <<>>, gen |-> a.gen]
    ELSE Prepend(a.sym, ReadN(a.gen, n - 1))

\* for _ in range(n): symbols.append(next(gen))   [err, syms, gen]
ReadN(gen, n) ==
    IF n <= 0 THEN [err |-> "", syms |-> <<>>, gen |-> gen]
    ELSE ReadMore(GenNext(gen), n)

(***************************************************************************)
(* The derivation walker, one loop iteration at a time. An activation of   *)
(* _translate_selfies_derive is a frame                                    *)
(*   [gen, state, prev_idx, curr_symbol, branch_start, new_state]          *)
(* where branch_start and new_state are what a suspended caller has        *)
(* computed before its recursive call.                                     *)
(***************************************************************************)
NoFrames(e) == [err |-> e, frames |-> <<>>]

FirstFrame(nx, init_state, prev_idx) ==
    [err |-> nx.err,
     frame |-> [gen |-> nx.gen, state |-> init_state, prev_idx |-> prev_idx,
                curr_symbol |-> nx.sym, branch_start |-> -1, new_state |-> 0]]

\* lines 630-631: curr_symbol = next(selfies_gen); state = init_state
CallDerive(gen, init_state, prev_idx) == FirstFrame(GenNext(gen), init_state, prev_idx)

Advanced(f, nx, new_state) ==
    [err |-> nx.err,
     frames |-> <<[f EXCEPT !.gen = nx.gen, !.curr_symbol = nx.sym, !.state = new_state]>>]

\* lines 708-709: curr_symbol = next(selfies_gen); state = new_state
Advance(f, new_state) == Advanced(f, GenNext(f.gen), new_state)

\* while curr_symbol != '' and state >= 0
Looping(f) == f.curr_symbol # <<>> /\ f.state >= 0

IsBranch(symbol) == Contains(symbol, <<"B", "r", "a", "n", "c", "h">>)

IsRing(symbol) == ~IsBranch(symbol) /\ Contains(symbol, <<"R", "i", "n", "g">>)

\* lines 656-659: the caller suspended, the branch's activation on top
BranchCall(f, bs, nderived, gen, callee) ==
    [err |-> callee.err,
     frames |-> <<[f EXCEPT !.gen = gen, !.branch_start = nderived, !.new_state = bs.next],
                  callee.frame>>]

\* lines 654-659, body the N + 1 symbols read
BranchBody(f, bs, nderived, body) ==
    IF body.err # "" THEN NoFrames(body.err)
    ELSE BranchCall(f, bs, nderived, body.gen,
                    CallDerive(_parse_selfies_symbols(body.syms), bs.init, f.prev_idx))

\* a variant of BranchIndex that takes N symbols for the branch, not N + 1
BranchIndexShort(f, bs, nderived, ls) ==
    IF ls.err # "" THEN NoFrames(ls.err)
    ELSE BranchBody(f, bs, nderived, ReadN(ls.gen, get_n_from_symbols(ls.syms)))

\* lines 649-659, ls the L symbols read
BranchIndex(f, bs, nderived, ls) ==
    IF ls.err # "" THEN NoFrames(ls.err)
    ELSE BranchBody(f, bs, nderived, ReadN(ls.gen, get_n_from_symbols(ls.syms) + 1))

\* a variant of BranchWith that opens the branch at every state
BranchWithAtAnyState(f, bs, nderived) ==
    IF bs.err # "" THEN NoFrames(bs.err)
    ELSE IF ChEnd(f.curr_symbol, 4) \notin Digits THEN NoFrames("ValueError")
    ELSE BranchIndex(f, bs, nderived, ReadN(f.gen, DigitVal(ChEnd(f.curr_symbol, 4))))

\* lines 640-659, bs the branch states
BranchWith(f, bs, nderived) ==
    IF bs.err # "" THEN NoFrames(bs.err)
    ELSE IF f.state <= 1 THEN Advance(f, bs.next)
    ELSE IF ChEnd(f.curr_symbol, 4) \notin Digits THEN NoFrames("ValueError")
    ELSE BranchIndex(f, bs, nderived, ReadN(f.gen, DigitVal(ChEnd(f.curr_symbol, 4))))

\* Case 1, lines 636-659, up to the first statement of the recursive call:
\* [err, frames], the frames that replace f on the stack
BranchCase(f, nderived) ==
    BranchWith(f, get_next_branch_state(f.curr_symbol, f.state), nderived)

\* lines 689-691: the bond symbol of a ring symbol, curr_symbol[5] after 'Expl'
RingBond(symbol) ==
    IF Slice(symbol, 1, 5) = <<"E", "x", "p", "l">> THEN <<Ch(symbol, 5)>> ELSE <<>>

\* a variant of RingTuple with no lower end for left_idx
RingTupleUnclamped(prev_idx, N, bond_symbol) ==
    [left |-> prev_idx - (N + 1), right |-> prev_idx, bond |-> bond_symbol]

\* lines 686-687: left_idx = max(0, prev_idx - (N + 1)); right_idx = prev_idx
RingTuple(prev_idx, N, bond_symbol) ==
    [left |-> Max2(0, prev_idx - (N + 1)), right |-> prev_idx, bond |-> bond_symbol]

WithRings(a, new_rings) == [err |-> a.err, frames |-> a.frames, ring |-> new_rings]

\* lines 684-693, ls the L symbols read
RingIndex(f, ls) ==
    IF ls.err # "" THEN [err |-> ls.err, frames |-> <<>>, ring |-> <<>>]
    ELSE WithRings(Advance([f EXCEPT !.gen = ls.gen], f.state),
                   <<RingTuple(f.prev_idx, get_n_from_symbols(ls.syms),
                               RingBond(f.curr_symbol))>>)

\* Case 2, lines 671-693 and 708-709: [err, frames, ring]; ring is <<>> or <<tuple>>
RingCase(f) ==
    IF f.state = 0 THEN WithRings(Advance(f, f.state), <<>>)
    ELSE IF ChEnd(f.curr_symbol, 2) \notin Digits
    THEN [err |-> "ValueError", frames |-> <<>>, ring |-> <<>>]
    ELSE RingIndex(f, ReadN(f.gen, DigitVal(ChEnd(f.curr_symbol, 2))))

\* lines 702-704: the parent pays the bond of the atom appended last
PayParent(d, prev_idx) ==
    IF prev_idx >= 0
    THEN [d EXCEPT ![prev_idx + 1].cap = @ - get_num_from_bond(<<d[Len(d)].text[1]>>)]
    ELSE d

\* lines 700-704: the derived list after an atom with text new_symbol is derived
AppendAtom(d, new_symbol, new_state, prev_idx) ==
    PayParent(Append(d, [text |-> new_symbol, cap |-> new_state, parent |-> prev_idx]),
              prev_idx)

WithDerived(a, d) == [err |-> a.err, frames |-> a.frames, derived |-> d]

\* lines 706-709, d1 the list with the new atom
AtomDerived(f, d1, new_state) ==
    WithDerived(Advance([f EXCEPT !.prev_idx = Len(d1) - 1], new_state), d1)

\* lines 699-709, r the result of get_next_state
AtomWith(f, d, r) ==
    IF r.err # "" THEN [err |-> r.err, frames |-> <<>>, derived |-> d]
    ELSE IF r.text # <<>>
    THEN AtomDerived(f, AppendAtom(d, r.text, r.next, f.prev_idx), r.next)
    ELSE WithDerived(Advance(f, r.next), d)

\* Case 3, lines 696-709: [err, frames, derived]
AtomCase(f, d, T) == AtomWith(f, d, get_next_state(f.curr_symbol, f.state, T))

HasBranch(b, start) == \E i \in 1..Len(b) : b[i].lb = start

BranchEndOf(b, start) == (b[CHOOSE i \in 1..Len(b) : b[i].lb = start]).rb

RECURSIVE ResolveStart(_, _)
\* lines 663-664: while branch_start in branches: branch_start = branches[branch_start] + 1
ResolveStart(b, start) ==
    IF HasBranch(b, start) THEN ResolveStart(b, BranchEndOf(b, start) + 1) ELSE start

\* lines 667-668
RegisterAt(b, start, branch_end) ==
    IF start <= branch_end THEN Append(b, [lb |-> start, rb |-> branch_end]) ELSE b

\* a variant of RegisterBranch that keeps the start it is given
RegisterBranchUnresolved(b, branch_start, branch_end) ==
    RegisterAt(b, branch_start, branch_end)

\* lines 660-668: the branch dict after a branch that began at branch_start
RegisterBranch(b, branch_start, branch_end) ==
    RegisterAt(b, ResolveStart(b, branch_start), branch_end)

(***************************************************************************)
(* The ring resolver                                                       *)
(***************************************************************************)
OldBondChars == {"-", "/", "\\", "=", "#"}

LocIndex(locs, loc) ==
    IF \E i \in 1..Len(locs) : locs[i].loc = loc
    THEN CHOOSE i \in 1..Len(locs) : locs[i].loc = loc
    ELSE 0

\* line 729: if left_idx == right_idx: continue
SameAtom(left_idx, right_idx) == left_idx = right_idx

\* a variant of NoRoom that finds room always
NoRoomNever(left_cap, right_cap) == FALSE

\* line 736: if left_end[1] <= 0 or right_end[1] <= 0: continue
NoRoom(left_cap, right_cap) == left_cap <= 0 \/ right_cap <= 0

\* lines 734-740: the bond order of the ring, capped by both capacities
RingBondNum(bond_symbol, left_cap, right_cap) ==
    IF get_num_from_bond(bond_symbol) > Min2(left_cap, right_cap)
    THEN Min2(left_cap, right_cap)
    ELSE get_num_from_bond(bond_symbol)

\* line 741: the bond symbol, re-derived when the order was capped
RingBondSymbol(bond_symbol, left_cap, right_cap) ==
    IF get_num_from_bond(bond_symbol) > Min2(left_cap, right_cap)
    THEN get_bond_from_num(Min2(left_cap, right_cap))
    ELSE bond_symbol

\* a variant of AlreadyBonded that never sees the two atoms as bonded
AlreadyBondedNever(left_idx, right_parent) == FALSE

\* line 745: if left_idx == right_end[2]
AlreadyBonded(left_idx, right_parent) == left_idx = right_parent

\* a variant of OldBond that finds no bond character
OldBondNone(right_symbol) == <<>>

\* lines 749-752
OldBond(right_symbol) ==
    IF right_symbol[1] \in OldBondChars THEN <<right_symbol[1]>> ELSE <<>>

\* lines 755-758
NewBondText(right_symbol, old_bond, bond_num) ==
    get_bond_from_num(Min2(bond_num + get_num_from_bond(old_bond), 3))
    \o SliceFrom(right_symbol, Len(old_bond))

\* lines 747-758: the bond between the two atoms is upgraded
UpgradeBond(d, right_idx, bond_num) ==
    [d EXCEPT ![right_idx + 1].text = NewBondText(@, OldBond(@), bond_num)]

\* lines 764-773, k the place of loc in ring_locs, 0 when it is new
AddRingLocAt(locs, k, loc, bond_num, bond_symbol) ==
    IF k > 0
    THEN [locs EXCEPT ![k].bond =
              get_bond_from_num(Min2(bond_num + get_num_from_bond(@), 3))]
    ELSE Append(locs, [loc |-> loc, bond |-> bond_symbol])

\* lines 762-773
AddRingLoc(locs, loc, bond_num, bond_symbol) ==
    AddRingLocAt(locs, LocIndex(locs, loc), loc, bond_num, bond_symbol)

\* lines 775-776
PayRing(d, ring, bond_num) ==
    [d EXCEPT ![ring.left + 1].cap = @ - bond_num, ![ring.right + 1].cap = @ - bond_num]

\* lines 745-776, the bond order and symbol settled
FormRingWith(d, locs, ring, bond_num, bond_symbol) ==
    IF AlreadyBonded(ring.left, d[ring.right + 1].parent)
    THEN [derived |-> PayRing(UpgradeBond(d, ring.right, bond_num), ring, bond_num),
          ring_locs |-> locs]
    ELSE [derived |-> PayRing(d, ring, bond_num),
          ring_locs |-> AddRingLoc(locs, <<ring.left, ring.right>>, bond_num, bond_symbol)]

\* lines 732-776, the two ends looked up
FormRingBetween(d, locs, ring, left_cap, right_cap) ==
    IF NoRoom(left_cap, right_cap) THEN [derived |-> d, ring_locs |-> locs]
    ELSE FormRingWith(d, locs, ring,
                      RingBondNum(ring.bond, left_cap, right_cap),
                      RingBondSymbol(ring.bond, left_cap, right_cap))

\* lines 727-776, one ring tuple: [derived, ring_locs]
FormRing(d, locs, ring) ==
    IF SameAtom(ring.left, ring.right) THEN [derived |-> d, ring_locs |-> locs]
    ELSE FormRingBetween(d, locs, ring, d[ring.left + 1].cap, d[ring.right + 1].cap)

\* a variant of RingId with no "%"
RingIdPlain(ring_counter) == StrOf(ring_counter)

\* lines 783-785: ring_id = str(ring_counter), with "%" before two digits
RingId(ring_counter) ==
    IF Len(StrOf(ring_counter)) = 2 THEN <<"%">> \o StrOf(ring_counter)
    ELSE StrOf(ring_counter)

\* lines 788-789
EmitRing(d, loc, tag) ==
    [[d EXCEPT ![loc[1] + 1].text = @ \o tag] EXCEPT ![loc[2] + 1].text = @ \o tag]

RECURSIVE EmitRings(_, _, _)
\* lines 780-789, from the ring_counter-th resolved ring on
EmitRings(d, locs, ring_counter) ==
    IF ring_counter > Len(locs) THEN d
    ELSE EmitRings(EmitRing(d, locs[ring_counter].loc,
                            locs[ring_counter].bond \o RingId(ring_counter)),
                   locs, ring_counter + 1)

\* lines 595-596
AddParens(d, lb, rb) ==
    [[d EXCEPT ![lb + 1].text = <<"(">> \o @] EXCEPT ![rb + 1].text = @ \o <<")">>]

RECURSIVE CreateBranches(_, _, _)
\* lines 594-596, from the k-th registered branch on
CreateBranches(d, b, k) ==
    IF k > Len(b) THEN d
    ELSE CreateBranches(AddParens(d, b[k].lb, b[k].rb), b, k + 1)

RECURSIVE Smiles(_)
\* lines 598-601
Smiles(d) == IF d = <<>> THEN <<>> ELSE Head(d).text \o Smiles(Tail(d))

(***************************************************************************)
(* The constraint registry. Tables are objects of a heap, so that a        *)
(* reference handed out or kept is told apart from a copy: "default",      *)
(* "octet_rule" and "hypervalent" are the module level presets, "act" is   *)
(* the dict made by set_semantic_constraints, "old" and "tmp" are the      *)
(* decoder's locals and "caller" is the caller's own dict.                 *)
(***************************************************************************)
ObjIds == {"default", "octet_rule", "hypervalent", "act", "old", "tmp", "caller"}

NoTable == <<>>

\* dict(h[src]), as the new object dst: the heap and the reference returned
CopyTable(h, src, dst) == [heap |-> [h EXCEPT ![dst] = h[src]], ref |-> dst]

\* a variant of get_default_constraints that returns the preset itself
get_default_constraints_shared(h, dst) == [heap |-> h, ref |-> "default"]

get_default_constraints(h, dst) == CopyTable(h, "default", dst)

get_octet_rule_constraints(h, dst) == CopyTable(h, "octet_rule", dst)

get_hypervalent_constraints(h, dst) == CopyTable(h, "hypervalent", dst)

get_semantic_constraints(h, a, dst) == CopyTable(h, a, dst)

\* a variant of ValidTable without the check of the values
ValidTableKeyOnly(t) == "?" \in DOMAIN t

\* the error checking of set_semantic_constraints, lines 170-178
ValidTable(t) == "?" \in DOMAIN t /\ \A key \in DOMAIN t : 1 <= t[key] /\ t[key] <= 8

\* line 180: _bond_constraints = dict(bond_constraints)
InstallTable(h, arg) == CopyTable(h, arg, "act")

Installed(c) == [err |-> "", heap |-> c.heap, active |-> c.ref]

\* [err, heap, active]; arg is "None" or the object passed
set_semantic_constraints(h, a, arg) ==
    IF arg = "None" THEN [err |-> "", heap |-> h, active |-> "default"]
    ELSE IF ~ValidTable(h[arg]) THEN [err |-> "ValueError", heap |-> h, active |-> a]
    ELSE Installed(InstallTable(h, arg))

(***************************************************************************)
(* The decoder                                                             *)
(***************************************************************************)
RECURSIVE Split(_)
SplitAt(s, i) ==
    IF i = -1 THEN <<s>> ELSE <<Slice(s, 0, i)>> \o Split(SliceFrom(s, i + 1))

\* selfies.split(".")
Split(s) == SplitAt(s, Find(s, ".", 0))

RECURSIVE Join(_)
\* '.'.join(all_smiles)
Join(ss) ==
    IF ss = <<>> THEN <<>>
    ELSE IF Len(ss) = 1 THEN ss[1]
    ELSE ss[1] \o <<".">> \o Join(Tail(ss))

\* set_semantic_constraints(t), t the copy of a preset just made
SetFrom(t, a) == set_semantic_constraints(t.heap, a, t.ref)

\* a variant of EnterWith that takes an unknown name for no override
EnterWithAnyName(old, a, c) ==
    IF c = "octet_rule" THEN SetFrom(get_octet_rule_constraints(old.heap, "tmp"), a)
    ELSE IF c = "hypervalent" THEN SetFrom(get_hypervalent_constraints(old.heap, "tmp"), a)
    ELSE [err |-> "", heap |-> old.heap, active |-> a]

\* lines 482-489, old the copy made by line 481
EnterWith(old, a, c) ==
    IF c = "None" THEN [err |-> "", heap |-> old.heap, active |-> a]
    ELSE IF c = "octet_rule" THEN SetFrom(get_octet_rule_constraints(old.heap, "tmp"), a)
    ELSE IF c = "hypervalent" THEN SetFrom(get_hypervalent_constraints(old.heap, "tmp"), a)
    ELSE [err |-> "ValueError", heap |-> old.heap, active |-> a]

\* lines 481-489: [err, heap, active]
DecoderEnter(h, a, c) == EnterWith(get_semantic_constraints(h, a, "old"), a, c)

\* lines 500-501: if constraints is not None: set_semantic_constraints(old_constraints)
RestoreOnReturn(h, a, c) ==
    IF c # "None" THEN set_semantic_constraints(h, a, "old")
    ELSE [err |-> "", heap |-> h, active |-> a]

\* a variant of RestoreOnExcept that leaves the override in place
RestoreOnExceptSkipped(h, a, c) == [err |-> "", heap |-> h, active |-> a]

\* lines 506-507, the same statement in the except clause
RestoreOnExcept(h, a, c) ==
    IF c # "None" THEN set_semantic_constraints(h, a, "old")
    ELSE [err |-> "", heap |-> h, active |-> a]

\* a variant of Collect that keeps the empty translations
CollectAll(all, smiles) == Append(all, smiles)

\* lines 497-498: if smiles != "": all_smiles.append(smiles)
Collect(all, smiles) == IF smiles # <<>> THEN Append(all, smiles) ELSE all

\* line 505: the exceptions the except clause of decoder catches
Caught(e) == e = "ValueError"

\* the decoder's locals die with the call
DropLocals(h) == [h EXCEPT !["old"] = NoTable, !["tmp"] = NoTable]

(***************************************************************************)
(* Inputs                                                                  *)
(***************************************************************************)
\* the longest input, in pieces, of the enumerated decoder inputs
MaxSyms == 3

\* the longest symbol list handed to the index codec
MaxCodecLen == 3

\* get_symbols_from_n: "an integer from 0 to 4095 inclusive"
MaxIndex == 4095

RECURSIVE SeqsUpTo(_, _)
\* the sequences over S of length at most n
SeqsUpTo(S, n) ==
    IF n = 0 THEN {<<>>}
    ELSE SeqsUpTo(S, n - 1)
         \cup {Append(q, x) : q \in {r \in SeqsUpTo(S, n - 1) : Len(r) = n - 1}, x \in S}

\* the tables a caller builds: a valid one, one without '?', and two with a
\* value out of [1, 8]
CallerTables ==
    {("C" :> 2) @@ ("?" :> 3), ("C" :> 4), ("?" :> 9), ("C" :> 0) @@ ("?" :> 8)}

\* the entries a caller writes into a table it holds
CallerWrites == {<<"S", 1>>, <<"?", 9>>}

\* the constraints arguments of decoder; "default" is no name decoder knows
ConstraintArgs == {"None", "octet_rule", "hypervalent", "default"}

\* decoder inputs of the registry specification
RegInputs ==
    {symC \o symC \o symRing1,
     symC \o <<".", ".">> \o symC,
     symS \o symTripleC,
     symP \o symTripleC \o symDoubleC,
     symEmpty,
     symC \o <<".">> \o symEmpty,
     symC \o symCH4,
     symC \o <<".", "[">>,
     symC \o <<"[", "B", "r", "a", "n", "c", "h", "1", "_", "4", "]">>,
     symC \o Branch(1, 1) \o symC \o symF \o symO}

\* the pieces the inputs of the derivation specification are made of
DerivePieces ==
    {symC, symDoubleC, symO, symCH4, symRing1, Branch(1, 1), epsilon,
     <<".">>, symEmpty, <<"[">>}

RECURSIVE Repeat(_, _)
Repeat(s, n) == IF n = 0 THEN <<>> ELSE s \o Repeat(s, n - 1)

\* a chain with ten rings, each between an atom and the atom two before it
TenRings == symC \o Repeat(symC \o symC \o symRing1 \o symRing1, 10)

\* two rings, a triple and a double one, between the same two sulfur atoms
TwoRingsOfFive ==
    symS \o symC \o symS \o <<"[", "E", "x", "p", "l", "#", "R", "i", "n", "g", "1", "]">>
    \o symRing1 \o symExplRing1 \o symRing1

\* longer inputs: rings, nested and successive branches, [nop], an empty piece
LongInputs ==
    {symC \o symC \o symC \o symRing1 \o symRing1,
     symC \o symC \o symC \o symC \o symRing1 \o symRing1 \o symRing1 \o symRing1,
     symC \o symC \o symC \o symExplRing1 \o symRing1,
     symO \o symC \o symExplRing1 \o symC,
     symC \o Branch(1, 1) \o symC \o symF \o symO,
     symC \o Branch(1, 1) \o symC \o symO,
     symC \o Branch(1, 2) \o symRing1 \o symDoubleC \o symC \o symO,
     symC \o Branch(1, 1) \o symRing1 \o Branch(1, 1) \o symC \o symF \o symO,
     symC \o Branch(1, 1) \o symC \o symO \o Branch(1, 1) \o symC \o symN,
     symC \o nop \o symDoubleC \o symRing2 \o symC \o symC,
     symN \o symDoubleC \o symRing1 \o symC \o <<".">> \o symC \o symTripleC,
     symC \o symC \o symC \o symRing1 \o symC \o symRing1 \o symC,
     symC \o <<".", ".">> \o symC,
     symO \o symTripleC \o symC,
     symC \o Branch(1, 3) \o symC \o symN \o symO,
     symC \o Branch(2, 1) \o symC \o symC \o symO \o symF,
     symO \o Branch(1, 2) \o symC \o symC \o symF,
     symC \o Branch(1, 4) \o symC \o symC,
     symC \o Branch(4, 1) \o symC \o symC \o symC \o symC \o symO \o symF,
     symC \o symF \o symC \o <<"[">>,
     symC \o Branch(1, 2) \o symRing1 \o symF \o symC \o symO,
     symC \o Branch(1, 2) \o Branch(1, 1) \o Branch(1, 1) \o symC \o symF \o symO \o symN,
     TenRings, TwoRingsOfFive, symC \o symTripleC \o symRing1,
     symC \o symOH1 \o symC}

DeriveInputs == {Concat(q) : q \in SeqsUpTo(DerivePieces, MaxSyms)} \cup LongInputs

\* the tables active when the derivation specification starts, other than the
\* default preset
DeriveTables == {("C" :> 3) @@ ("O" :> 1) @@ ("?" :> 2), ("C" :> 2) @@ ("?" :> 8)}

\* symbols handed to get_n_from_symbols; [F] is not in the index alphabet
CodecSymbols == {symC, symRing1, Branch(2, 3), symO, symP, symF}

(***************************************************************************)
(* The initial state: the module just imported                             *)
(***************************************************************************)
InitHeap ==
    [o \in ObjIds |->
        CASE o = "default" -> default_bond_constraints
          [] o = "octet_rule" -> octet_rule_bond_constraints
          [] o = "hypervalent" -> hypervalent_bond_constraints
          [] OTHER -> NoTable]

\* the threads that call decoder with a constraints argument
CallIds == {1, 2}

\* a call not made yet
NotCalled ==
    [pc |-> "start", constraints |-> "None", selfies |-> <<>>, old |-> NoTable,
     exit |-> "", seen |-> NoTable]

InitCalls ==
    /\ calls = [t \in CallIds |-> NotCalled] /\ overlap = FALSE
    /\ callerRef = "none"
    /\ pc = "idle" /\ op = "" /\ outcome = "" /\ result = "" /\ entry_table = NoTable
    /\ selfies = <<>> /\ constraints = "None" /\ pieces = <<>> /\ all_smiles = <<>>
    /\ exc = ""
    /\ stack = <<>> /\ derived = <<>> /\ branches = <<>> /\ rings = <<>>
    /\ ring_k = 0 /\ ring_locs = <<>> /\ emitted = <<>>

InitRest ==
    /\ InitCalls
    /\ codec_pc = "off" /\ codec_n = -1 /\ codec_syms = <<>> /\ codec_out = -1

\* line 44: _bond_constraints = default_bond_constraints
Init == heap = InitHeap /\ active = "default" /\ InitRest

ActiveTable == heap[active]

Top == stack[Len(stack)]

Below == SubSeq(stack, 1, Len(stack) - 1)

(***************************************************************************)
(* The public operations of the registry, and what the caller does with    *)
(* the dict it holds                                                       *)
(***************************************************************************)
Returned(name, how) ==
    /\ pc' = "returned" /\ op' = name /\ outcome' = how /\ result' = ""
    /\ entry_table' = ActiveTable

\* a getter returned the new object c.ref to the caller
Got(c, name) ==
    /\ heap' = c.heap /\ callerRef' = c.ref /\ active' = active
    /\ Returned(name, "ok")
    /\ UNCHANGED <<decVars, fragVars, codecVars, twoVars>>

CallGetDefault == pc = "idle" /\ Got(get_default_constraints(heap, "caller"), "get_default")

CallGetOctetRule ==
    pc = "idle" /\ Got(get_octet_rule_constraints(heap, "caller"), "get_octet_rule")

CallGetHypervalent ==
    pc = "idle" /\ Got(get_hypervalent_constraints(heap, "caller"), "get_hypervalent")

CallGetSemantic ==
    pc = "idle" /\ Got(get_semantic_constraints(heap, active, "caller"), "get_semantic")

\* set_semantic_constraints returned or raised
SetDone(r, name) ==
    /\ heap' = r.heap /\ active' = r.active
    /\ Returned(name, IF r.err = "" THEN "ok" ELSE r.err)
    /\ UNCHANGED <<callerRef, decVars, fragVars, codecVars, twoVars>>

\* set_semantic_constraints(t), t the dict the caller holds
CallSet ==
    /\ pc = "idle" /\ callerRef # "none"
    /\ SetDone(set_semantic_constraints(heap, active, callerRef), "set")

\* set_semantic_constraints()
CallSetNone ==
    pc = "idle" /\ SetDone(set_semantic_constraints(heap, active, "None"), "set_none")

\* the caller builds a dict of its own
CallerNewTable ==
    /\ pc = "idle"
    /\ \E t \in CallerTables : heap' = [heap EXCEPT !["caller"] = t]
    /\ callerRef' = "caller"
    /\ UNCHANGED <<active, callVars, decVars, fragVars, codecVars, twoVars>>

\* the caller writes an entry into the dict it holds
CallerWrite ==
    /\ pc = "idle" /\ callerRef # "none"
    /\ \E w \in CallerWrites : heap' = [heap EXCEPT ![callerRef] = Update(@, w[1] :> w[2])]
    /\ UNCHANGED <<active, callerRef, callVars, decVars, fragVars, codecVars, twoVars>>

\* the caller takes the result; the call's record is cleared
Resume ==
    /\ pc = "returned"
    /\ pc' = "idle" /\ op' = "" /\ outcome' = "" /\ result' = "" /\ entry_table' = NoTable
    /\ selfies' = <<>> /\ constraints' = "None" /\ pieces' = <<>> /\ all_smiles' = <<>>
    /\ exc' = "" /\ emitted' = <<>>
    /\ UNCHANGED <<regVars, stack, derived, branches, rings, ring_k, ring_locs, codecVars, twoVars>>

(***************************************************************************)
(* decoder, a step at a time                                               *)
(***************************************************************************)
\* an exception leaves _translate_selfies: its locals are gone
Raise(e) ==
    /\ pc' = "raised" /\ exc' = e
    /\ stack' = <<>> /\ derived' = <<>> /\ branches' = <<>> /\ rings' = <<>>
    /\ ring_k' = 0 /\ ring_locs' = <<>>

\* lines 481-492, r the outcome of lines 481-489
Entered(r, x, c) ==
    /\ active' = r.active
    /\ IF r.err # ""
       THEN /\ heap' = DropLocals(r.heap)
            /\ pc' = "returned" /\ outcome' = r.err /\ pieces' = <<>>
       ELSE /\ heap' = r.heap
            /\ pc' = "fragment" /\ outcome' = "" /\ pieces' = Split(x)
    /\ op' = "decoder" /\ result' = "" /\ entry_table' = ActiveTable
    /\ selfies' = x /\ constraints' = c /\ all_smiles' = <<>> /\ exc' = ""
    /\ UNCHANGED <<callerRef, fragVars, codecVars, twoVars>>

\* decoder(x, constraints=c) is called
decoder(x, c) == pc = "idle" /\ Entered(DecoderEnter(heap, active, c), x, c)

CallDecoder == pc = "idle" /\ \E x \in RegInputs, c \in ConstraintArgs : decoder(x, c)

\* lines 564-590 and 630-631, r the first activation
Translating(r) ==
    IF r.err # ""
    THEN Raise(r.err)
    ELSE /\ pc' = "derive" /\ exc' = exc /\ stack' = <<r.frame>>
         /\ derived' = <<>> /\ branches' = <<>> /\ rings' = <<>>
         /\ ring_k' = 0 /\ ring_locs' = <<>>

\* line 495: _translate_selfies(s) is called for the next piece
TranslateSelfies ==
    /\ pc = "fragment" /\ pieces # <<>>
    /\ Translating(CallDerive(_parse_selfies(Head(pieces)), 0, -1))
    /\ UNCHANGED <<regVars, op, outcome, result, entry_table, selfies, constraints,
                   pieces, all_smiles, emitted, codecVars, twoVars>>

\* the frames r.frames replace the top of the stack, or r.err is raised
Stepped(r, under, d, b, rg) ==
    IF r.err # ""
    THEN Raise(r.err)
    ELSE /\ pc' = pc /\ exc' = exc /\ stack' = under \o r.frames
         /\ derived' = d /\ branches' = b /\ rings' = rg
         /\ UNCHANGED <<ring_k, ring_locs>>

DeriveFrame ==
    UNCHANGED <<regVars, op, outcome, result, entry_table, selfies, constraints,
                pieces, all_smiles, emitted, codecVars, twoVars>>

\* Case 1 of the loop
BranchSymbol ==
    /\ pc = "derive" /\ Looping(Top) /\ IsBranch(Top.curr_symbol)
    /\ Stepped(BranchCase(Top, Len(derived)), Below, derived, branches, rings)
    /\ DeriveFrame

RingStepped(r) == Stepped(r, Below, derived, branches, rings \o r.ring)

\* Case 2 of the loop
RingSymbol ==
    /\ pc = "derive" /\ Looping(Top) /\ IsRing(Top.curr_symbol)
    /\ RingStepped(RingCase(Top))
    /\ DeriveFrame

AtomStepped(r) == Stepped(r, Below, r.derived, branches, rings)

\* Case 3 of the loop
AtomSymbol ==
    /\ pc = "derive" /\ Looping(Top)
    /\ ~IsBranch(Top.curr_symbol) /\ ~IsRing(Top.curr_symbol)
    /\ AtomStepped(AtomCase(Top, derived, ActiveTable))
    /\ DeriveFrame

\* lines 660-668 and 708-709 of the caller f, the branch's activation over
BranchReturned(f) ==
    Stepped(Advance(f, f.new_state), SubSeq(stack, 1, Len(stack) - 2), derived,
            RegisterBranch(branches, f.branch_start, Len(derived) - 1), rings)

\* the activation of a branch returns to the activation that called it
BranchReturn ==
    /\ pc = "derive" /\ ~Looping(Top) /\ Len(stack) > 1
    /\ BranchReturned(stack[Len(stack) - 1])
    /\ DeriveFrame

\* line 590 returns; line 591 is called
DeriveDone ==
    /\ pc = "derive" /\ ~Looping(Top) /\ Len(stack) = 1
    /\ pc' = "rings" /\ stack' = <<>> /\ ring_k' = 1 /\ ring_locs' = <<>>
    /\ UNCHANGED <<regVars, op, outcome, result, entry_table, decVars, derived,
                   branches, rings, emitted, codecVars, twoVars>>

RingResolved(r) == derived' = r.derived /\ ring_locs' = r.ring_locs

\* one iteration of the loop of lines 727-776
ResolveRing ==
    /\ pc = "rings" /\ ring_k <= Len(rings)
    /\ RingResolved(FormRing(derived, ring_locs, rings[ring_k]))
    /\ ring_k' = ring_k + 1
    /\ UNCHANGED <<regVars, callVars, decVars, stack, branches, rings, emitted, codecVars, twoVars>>

\* lines 780-789; the atoms and ring bonds of the piece are noted in emitted
AddRings ==
    /\ pc = "rings" /\ ring_k > Len(rings)
    /\ emitted' = Append(emitted, [atoms |-> derived, ring_locs |-> ring_locs,
                                   smiles |-> <<>>])
    /\ derived' = EmitRings(derived, ring_locs, 1)
    /\ pc' = "format"
    /\ UNCHANGED <<regVars, op, outcome, result, entry_table, decVars, stack,
                   branches, rings, ring_k, ring_locs, codecVars, twoVars>>

\* lines 497-498, smiles the translation of the piece
Formatted(smiles) ==
    /\ all_smiles' = Collect(all_smiles, smiles)
    /\ emitted' = [emitted EXCEPT ![Len(emitted)].smiles = smiles]

\* lines 594-601 and 497-498
FormatSmiles ==
    /\ pc = "format"
    /\ Formatted(Smiles(CreateBranches(derived, branches, 1)))
    /\ pieces' = Tail(pieces)
    /\ pc' = "fragment"
    /\ derived' = <<>> /\ branches' = <<>> /\ rings' = <<>> /\ ring_k' = 0
    /\ ring_locs' = <<>>
    /\ UNCHANGED <<regVars, op, outcome, result, entry_table, selfies, constraints,
                   exc, stack, codecVars, twoVars>>

\* decoder is left: heap and active as r leaves them, the locals dropped
Left(r, how, text) ==
    /\ heap' = DropLocals(r.heap) /\ active' = r.active
    /\ pc' = "returned" /\ outcome' = (IF r.err = "" THEN how ELSE r.err)
    /\ result' = (IF r.err = "" THEN text ELSE "")
    /\ UNCHANGED <<callerRef, op, entry_table, decVars, fragVars, codecVars, twoVars>>

\* lines 500-503: the loop is over
DecoderReturn ==
    /\ pc = "fragment" /\ pieces = <<>>
    /\ Left(RestoreOnReturn(heap, active, constraints), "smiles", Str(Join(all_smiles)))

\* lines 505-511: except ValueError
DecoderExcept ==
    /\ pc = "raised" /\ Caught(exc)
    /\ Left(RestoreOnExcept(heap, active, constraints), "None", "")

\* an exception the except clause does not name leaves decoder as it is
DecoderPropagate ==
    /\ pc = "raised" /\ ~Caught(exc)
    /\ Left([err |-> exc, heap |-> heap, active |-> active], "", "")

DecoderStep ==
    \/ TranslateSelfies
    \/ BranchSymbol
    \/ RingSymbol
    \/ AtomSymbol
    \/ BranchReturn
    \/ DeriveDone
    \/ ResolveRing
    \/ AddRings
    \/ FormatSmiles
    \/ DecoderReturn
    \/ DecoderExcept
    \/ DecoderPropagate

Next ==
    \/ CallGetDefault
    \/ CallGetOctetRule
    \/ CallGetHypervalent
    \/ CallGetSemantic
    \/ CallSet
    \/ CallSetNone
    \/ CallerNewTable
    \/ CallerWrite
    \/ CallDecoder
    \/ DecoderStep
    \/ Resume

\* the registry and the decoder, called in any order
Spec == Init /\ [][Next]_vars

(***************************************************************************)
(* One decoder call with no constraints argument, over the enumerated      *)
(* inputs, under the default table or a table installed before             *)
(***************************************************************************)
InitDerive ==
    /\ \/ heap = InitHeap /\ active = "default"
       \/ \E t \in DeriveTables : heap = [InitHeap EXCEPT !["act"] = t] /\ active = "act"
    /\ InitRest

CallDecoderDerive == pc = "idle" /\ \E x \in DeriveInputs : decoder(x, "None")

NextDerive ==
    \/ CallDecoderDerive
    \/ DecoderStep
    \/ Resume

SpecDerive == InitDerive /\ [][NextDerive]_vars

\* a decoder call is under way: the states in which DecoderStep can be taken
Running == pc \in {"fragment", "derive", "rings", "format", "raised"}

\* decoder is a synchronous call, so while it is under way its next step is
\* taken: WF_vars(DecoderStep), with ENABLED <<DecoderStep>>_vars written as
\* Running
DecoderFair == []<>~Running \/ []<><<DecoderStep>>_vars

SpecDeriveFair == InitDerive /\ [][NextDerive]_vars /\ DecoderFair

(***************************************************************************)
(* The index codec, called on its own                                      *)
(***************************************************************************)
\* the caller has an integer of 0..MaxIndex to encode, or a symbol list of its
\* own to take the integer of
InitCodec ==
    /\ heap = InitHeap /\ active = "default" /\ InitCalls
    /\ \/ /\ codec_pc = "encode" /\ codec_n \in 0..MaxIndex
          /\ codec_syms = <<>> /\ codec_out = -1
       \/ /\ codec_pc = "index" /\ codec_n = -1
          /\ codec_syms \in SeqsUpTo(CodecSymbols, MaxCodecLen) \ {<<>>}
          /\ codec_out = -1

CodecFrame == UNCHANGED <<regVars, callVars, decVars, fragVars, twoVars>>

\* n = get_n_from_symbols(*symbols), symbols the caller's list
CodecIndex ==
    /\ codec_pc = "index"
    /\ codec_n' = get_n_from_symbols(codec_syms)
    /\ codec_syms' = <<>> /\ codec_pc' = "encode"
    /\ UNCHANGED codec_out
    /\ CodecFrame

\* symbols = get_symbols_from_n(n)
CodecEncode ==
    /\ codec_pc = "encode"
    /\ codec_syms' = get_symbols_from_n(codec_n)
    /\ codec_pc' = "decode"
    /\ UNCHANGED <<codec_n, codec_out>>
    /\ CodecFrame

\* get_n_from_symbols(*symbols), symbols the list just made
CodecDecode ==
    /\ codec_pc = "decode"
    /\ codec_out' = get_n_from_symbols(codec_syms)
    /\ codec_pc' = "done"
    /\ UNCHANGED <<codec_n, codec_syms>>
    /\ CodecFrame

NextCodec ==
    \/ CodecIndex
    \/ CodecEncode
    \/ CodecDecode

SpecCodec == InitCodec /\ [][NextCodec]_vars

(***************************************************************************)
(* Two decoder calls with a constraints argument, made by two threads: the *)
(* statements with which a call saves, swaps and restores the active table *)
(* interleave with those of the other call. old_constraints is a local of  *)
(* the call; _bond_constraints is the global of the module.                *)
(***************************************************************************)
\* the inputs of the two calls: each of one symbol, one for each way out
TwoInputs == {symC, <<"[", "C">>, symEmpty}

ExitOfFirst(first, T) ==
    IF first.err # "" THEN first.err
    ELSE IF first.sym = <<>> THEN ""
    ELSE get_next_state(first.sym, 0, T).err

\* lines 492-498 for a selfies of one symbol: "" when the translation returns,
\* else the exception it raises
ExitOf(x, T) == ExitOfFirst(GenNext(_parse_selfies(x)), T)

Underway(t) == calls[t].pc \notin {"start", "done"}

TwoFrame == UNCHANGED <<callerRef, pc, op, outcome, result, decVars, fragVars, codecVars>>

\* line 481: old_constraints = get_semantic_constraints()
Save(t) ==
    /\ calls[t].pc = "start"
    /\ \E x \in TwoInputs, c \in {"octet_rule", "hypervalent"} :
           calls' = [calls EXCEPT ![t] = [@ EXCEPT !.pc = "saved", !.selfies = x,
                                                   !.constraints = c,
                                                   !.old = ActiveTable]]
    /\ overlap' = (overlap \/ \E u \in CallIds \ {t} : Underway(u))
    /\ entry_table' = (IF \A u \in CallIds : calls[u].pc = "start" THEN ActiveTable
                       ELSE entry_table)
    /\ UNCHANGED <<heap, active>> /\ TwoFrame

Swapped(r) == heap' = DropLocals(r.heap) /\ active' = r.active

\* lines 482-489: set_semantic_constraints(get_..._constraints())
Swap(t) ==
    /\ calls[t].pc = "saved"
    /\ Swapped(EnterWith([heap |-> heap], active, calls[t].constraints))
    /\ calls' = [calls EXCEPT ![t].pc = "swapped"]
    /\ UNCHANGED <<overlap, entry_table>> /\ TwoFrame

\* lines 491-498: the translation, under the table that is active
Translate(t) ==
    /\ calls[t].pc = "swapped"
    /\ calls' = [calls EXCEPT ![t] = [@ EXCEPT !.pc = "translated",
                                               !.exit = ExitOf(calls[t].selfies, ActiveTable),
                                               !.seen = ActiveTable]]
    /\ UNCHANGED <<heap, active, overlap, entry_table>> /\ TwoFrame

\* lines 500-503 and 505-511: set_semantic_constraints(old_constraints)
Restore(t) ==
    /\ calls[t].pc = "translated" /\ (calls[t].exit = "" \/ Caught(calls[t].exit))
    /\ Swapped(IF calls[t].exit = ""
               THEN RestoreOnReturn([heap EXCEPT !["old"] = calls[t].old], active,
                                    calls[t].constraints)
               ELSE RestoreOnExcept([heap EXCEPT !["old"] = calls[t].old], active,
                                    calls[t].constraints))
    /\ calls' = [calls EXCEPT ![t].pc = "done"]
    /\ UNCHANGED <<overlap, entry_table>> /\ TwoFrame

\* line 505: an exception that is no ValueError leaves the call as it is
Propagate(t) ==
    /\ calls[t].pc = "translated" /\ calls[t].exit # "" /\ ~Caught(calls[t].exit)
    /\ calls' = [calls EXCEPT ![t].pc = "done"]
    /\ UNCHANGED <<heap, active, overlap, entry_table>> /\ TwoFrame

NextTwo ==
    \E t \in CallIds : Save(t) \/ Swap(t) \/ Translate(t) \/ Restore(t) \/ Propagate(t)

SpecTwo == InitDerive /\ [][NextTwo]_vars

(***************************************************************************)
(* Properties. A call that is over is read in the state with               *)
(* pc = "returned": op, selfies and constraints say what was called,       *)
(* entry_table what the active table held when it was, outcome and result  *)
(* how it ended, emitted what each translated piece consisted of.          *)
(***************************************************************************)
DecoderOver == pc = "returned" /\ op = "decoder"

Overridden == constraints \in {"octet_rule", "hypervalent"}

\* the atom part of a derived text: the text without its bond character
AtomText(text) == IF text[1] \in OldBondChars THEN Tail(text) ELSE text

KeyOfAtom(atom) == AtomOrIon(atom.element, atom.charge)

HydrogensOf(text) == parse_atom_symbol(AtomText(text)).h_count

CapacityOf(T, text) == Lookup(T, KeyOfAtom(parse_atom_symbol(AtomText(text))))

\* the order of the bond of a derived atom to its bonding parent
BondToParent(a) == IF a.parent >= 0 THEN get_num_from_bond(<<a.text[1]>>) ELSE 0

RECURSIVE BondsOfChildren(_, _, _)
\* the orders of the bonds of the atoms, from the j-th on, whose parent is atom i
BondsOfChildren(atoms, i, j) ==
    IF j > Len(atoms) THEN 0
    ELSE (IF atoms[j].parent = i THEN BondToParent(atoms[j]) ELSE 0)
         + BondsOfChildren(atoms, i, j + 1)

RECURSIVE BondsOfRings(_, _, _)
\* the orders of the ring bonds, from the k-th on, that end at atom i
BondsOfRings(locs, i, k) ==
    IF k > Len(locs) THEN 0
    ELSE (IF i \in {locs[k].loc[1], locs[k].loc[2]}
          THEN get_num_from_bond(locs[k].bond) ELSE 0)
         + BondsOfRings(locs, i, k + 1)

\* atom i (from 0) of the piece e has no more hydrogens and bonds than T allows
AtomRespects(T, e, i) ==
    HydrogensOf(e.atoms[i + 1].text) + BondToParent(e.atoms[i + 1])
        + BondsOfChildren(e.atoms, i, 1) + BondsOfRings(e.ring_locs, i, 1)
    <= CapacityOf(T, e.atoms[i + 1].text)

\* C1: whenever decoder returns a SMILES under the active table T, every atom
\* of every piece has explicit hydrogens plus bond orders (to its parent, from
\* its children, of its ring closures) at most T's entry for its atom-or-ion
\* key, '?' when the key is absent.
C1_CapacityRespected ==
    (DecoderOver /\ outcome = "smiles") =>
        \A k \in 1..Len(emitted) :
            \A i \in 0..(Len(emitted[k].atoms) - 1) :
                AtomRespects(entry_table, emitted[k], i)

\* C2: whenever decoder, called with constraints 'octet_rule' or
\* 'hypervalent', returns (a SMILES or None), the active table holds what it
\* held when decoder was called, whatever calls came before.
C2_OverrideDoesNotLeak ==
    (DecoderOver /\ Overridden /\ outcome \in {"smiles", "None"}) =>
        ActiveTable = entry_table

C2_Witness ==
    /\ DecoderOver /\ constraints = "octet_rule" /\ outcome = "None"
    /\ entry_table = ("C" :> 2) @@ ("?" :> 3)
    /\ ActiveTable = entry_table

\* C3: when decoder is called with a constraints override, the table active
\* before is active again however the call ends: with a SMILES, with None,
\* or with an exception that leaves decoder.
C3_RestoredOnEveryExit == (DecoderOver /\ Overridden) => ActiveTable = entry_table

\* C4: when the translation of any piece raises an error, decoder returns
\* None for the whole call: no exception leaves it and no string is returned.
C4_AllOrNothing == (DecoderOver /\ exc # "") => (outcome = "None" /\ result = "")

\* the error checking the docstring of set_semantic_constraints asks for
WellFormed(t) == "?" \in DOMAIN t /\ \A key \in DOMAIN t : t[key] \in 1..8

\* C5: the active table always has '?' and only values in 1..8;
\* set_semantic_constraints(t) with a t that lacks '?' or holds a value out of
\* 1..8 raises ValueError and leaves the active table as it was, with a valid
\* t makes the active table equal to t, with no argument makes it the default.
C5_ActiveTableValid ==
    /\ WellFormed(ActiveTable)
    /\ (pc = "returned" /\ op = "set") =>
           IF WellFormed(heap[callerRef])
           THEN outcome = "ok" /\ ActiveTable = heap[callerRef]
           ELSE outcome = "ValueError" /\ ActiveTable = entry_table
    /\ (pc = "returned" /\ op = "set_none") =>
           outcome = "ok" /\ ActiveTable = default_bond_constraints

C5_Witness ==
    /\ pc = "returned" /\ op = "set" /\ outcome = "ValueError"
    /\ heap[callerRef] = ("C" :> 2) @@ ("?" :> 9)
    /\ entry_table = ("C" :> 2) @@ ("?" :> 3)

\* C6: decoder called with a constraints name other than 'octet_rule',
\* 'hypervalent' or None raises ValueError before it splits or translates
\* anything, and the active table is what it was.
C6_UnknownNameFailsFirst ==
    (op = "decoder" /\ constraints \notin {"None", "octet_rule", "hypervalent"}) =>
        /\ pc = "returned" /\ outcome = "ValueError" /\ exc = ""
        /\ pieces = <<>> /\ all_smiles = <<>> /\ emitted = <<>>
        /\ ActiveTable = entry_table

C6_Witness ==
    /\ DecoderOver /\ constraints = "default" /\ outcome = "ValueError"
    /\ selfies = symC \o symC \o symRing1
    /\ entry_table = ("C" :> 2) @@ ("?" :> 3)

PresetsIntact ==
    /\ heap["default"] = default_bond_constraints
    /\ heap["octet_rule"] = octet_rule_bond_constraints
    /\ heap["hypervalent"] = hypervalent_bond_constraints

\* the content of the active table changes in this step
ActiveChanges == heap'[active'] # heap[active]

\* C7: after any calls of the getters, set_semantic_constraints and decoder,
\* and any write of the caller into a dict it passed in or got back, the three
\* presets hold their original content, and the active table changes only in
\* a step of set_semantic_constraints or of a decoder call with an override.
C7_PresetsImmutableNoAliasing ==
    /\ []PresetsIntact
    /\ [][ActiveChanges =>
            (op' \in {"set", "set_none"} \/ (op' = "decoder" /\ Overridden'))]_vars

\* the caller has written into the dict it passed to set_semantic_constraints
C7_Witness ==
    /\ callerRef = "caller"
    /\ heap["caller"] = Update(("C" :> 2) @@ ("?" :> 3), "S" :> 1)
    /\ active = "act" /\ ActiveTable = ("C" :> 2) @@ ("?" :> 3)

DefaultActive == entry_table = default_bond_constraints

\* the SMILES returned, as characters
ResultText == Join(all_smiles)

HasRingDigit(text) == \E i \in 1..Len(text) : text[i] \in Digits

\* C8, as the code has it: decoder('[C][C][Ring1]') under the default table
\* returns 'C=C', with no ring closure digit: the ring symbol reads no index
\* symbol, so it closes between the last atom and the atom before it, which
\* are bonded already, and their bond is raised; the three-membered ring
\* 'C1CC1' is what decoder('[C][C][C][Ring1][Ring1]') returns.
C8_RingOnBondedAtomsRaisesBond ==
    /\ (DecoderOver /\ DefaultActive /\ selfies = symC \o symC \o symRing1) =>
           outcome = "smiles" /\ result = "C=C" /\ ~HasRingDigit(ResultText)
    /\ (DecoderOver /\ DefaultActive
            /\ selfies = symC \o symC \o symC \o symRing1 \o symRing1) =>
           outcome = "smiles" /\ result = "C1CC1"

C8_Witness ==
    /\ DecoderOver /\ DefaultActive /\ selfies = symC \o symC \o symRing1
    /\ result = "C=C"

\* C8, as stated: decoder('[C][C][Ring1]') under the default table returns a
\* SMILES that carries ring closure digits.
C8_AsStated ==
    (DecoderOver /\ DefaultActive /\ selfies = symC \o symC \o symRing1) =>
        outcome = "smiles" /\ HasRingDigit(ResultText)

DotCount(text) == Cardinality({i \in 1..Len(text) : text[i] = "."})

RECURSIVE Translations(_)
\* the translations of the pieces, in the order they were translated
Translations(e) ==
    IF e = <<>> THEN <<>> ELSE <<Head(e).smiles>> \o Translations(Tail(e))

RECURSIVE NonEmptyOnes(_)
NonEmptyOnes(ss) ==
    IF ss = <<>> THEN <<>>
    ELSE (IF Head(ss) = <<>> THEN <<>> ELSE <<Head(ss)>>) \o NonEmptyOnes(Tail(ss))

\* the piece e begins at state 0 with no parent: its first atom has no parent
\* and no bond character
StartsFresh(e) ==
    e.atoms # <<>> => e.atoms[1].parent = -1 /\ e.atoms[1].text[1] \notin OldBondChars

\* C9: when decoder returns a SMILES, every piece between the dots of the
\* input was translated, each from state 0 with no parent atom, and the result
\* is the non-empty translations joined by '.' in input order; so
\* '[C]..[C]' gives 'C.C' and '[C].[O]' gives 'C.O'.
C9_FragmentsIndependent ==
    /\ (DecoderOver /\ outcome = "smiles") =>
           /\ Len(emitted) = DotCount(selfies) + 1
           /\ \A k \in 1..Len(emitted) : StartsFresh(emitted[k])
           /\ result = Str(Join(NonEmptyOnes(Translations(emitted))))
    /\ (DecoderOver /\ selfies = symC \o <<".", ".">> \o symC) =>
           outcome = "smiles" /\ result = "C.C"
    /\ (DecoderOver /\ selfies = symC \o <<".">> \o symO) =>
           outcome = "smiles" /\ result = "C.O"

C9_Witness ==
    /\ DecoderOver /\ selfies = symC \o <<".", ".">> \o symC
    /\ Len(emitted) = 3 /\ emitted[2].smiles = <<>>
    /\ result = "C.C"

\* C10: get_n_from_symbols gives back every n of 0..4095 from
\* get_symbols_from_n(n); get_symbols_from_n(0) is the first symbol of the
\* index alphabet alone; and the integer of a symbol list of length 1 to 3,
\* a symbol outside the alphabet counting 0, survives the round trip through
\* get_symbols_from_n and get_n_from_symbols.
C10_IndexRoundTrip ==
    /\ codec_pc = "done" => codec_out = codec_n
    /\ (codec_pc \in {"decode", "done"} /\ codec_n = 0) => codec_syms = <<symC>>

\* 4095 has come back from its three symbols
C10_Witness ==
    /\ codec_pc = "done" /\ codec_n = MaxIndex /\ codec_out = MaxIndex
    /\ codec_syms = <<symP, symP, symP>>

\* an atom symbol other than [epsilon] is the symbol to process
AtomAtHand ==
    /\ pc = "derive" /\ Looping(Top)
    /\ ~IsBranch(Top.curr_symbol) /\ ~IsRing(Top.curr_symbol)
    /\ Top.curr_symbol # epsilon

Min3(a, b, c) == Min2(a, Min2(b, c))

\* the bond order the symbol asks for
RequestedOrder(symbol) ==
    IF symbol[2] = "=" THEN 2 ELSE IF symbol[2] = "#" THEN 3 ELSE 1

\* the character of a bond order
OrderChar(n) == IF n = 2 THEN <<"=">> ELSE IF n = 3 THEN <<"#">> ELSE <<>>

\* the capacity T leaves the atom of the symbol after its hydrogens
RemainingCapacity(T, symbol) ==
    CapacityOf(T, SmilesSymbol(symbol, LeadingBond(symbol)))
        - HydrogensOf(SmilesSymbol(symbol, LeadingBond(symbol)))

\* the text and the next state the claim gives for symbol at state s with
\* remaining capacity c, used the bond order used
ExpectedAtomWith(symbol, s, c, used) ==
    IF s = 0
    THEN [text |-> SmilesSymbol(symbol, LeadingBond(symbol)), next |-> c]
    ELSE [text |-> (IF used < RequestedOrder(symbol) THEN OrderChar(used)
                    ELSE LeadingBond(symbol))
                   \o SmilesSymbol(symbol, LeadingBond(symbol)),
          next |-> IF c - used = 0 THEN -1 ELSE c - used]

ExpectedAtom(symbol, s, c) ==
    ExpectedAtomWith(symbol, s, c, Min3(RequestedOrder(symbol), s, c))

\* the step derived the atom e from the symbol at hand
DerivedAs(e) ==
    /\ Len(derived') = Len(derived) + 1
    /\ derived'[Len(derived')].text = e.text
    /\ stack'[Len(stack')].state = e.next

\* the states of all activations
StatesInRange == \A k \in 1..Len(stack) : stack[k].state \in -1..8

\* the state of some activation goes from above 0 to 0
FallsToZero ==
    \E k \in 1..Min2(Len(stack), Len(stack')) :
        stack[k].state > 0 /\ stack'[k].state = 0

\* C11: a step of get_next_state on an atom symbol other than [epsilon] at
\* state s, with c the table's entry minus the hydrogens: at s > 0 the bond
\* order used is min(requested, s, c), the bond character is re-derived when
\* the order was capped, and the next state is c minus the order used, -1 when
\* that is 0; at s = 0 the bond character is dropped and the next state is c.
\* Every state of a derivation is in -1..8 and no state above 0 is followed
\* by 0.
C11_NextAtomState ==
    /\ []StatesInRange
    /\ [][(AtomAtHand /\ pc' = "derive") =>
              DerivedAs(ExpectedAtom(Top.curr_symbol, Top.state,
                                     RemainingCapacity(ActiveTable, Top.curr_symbol)))]_vars
    /\ [][~FallsToZero]_vars

\* [#C] after [O] under a table with C: 2 and no entry for O: the triple bond
\* asked for at state 8 was capped to the capacity 2 and the state is -1
C11_Witness ==
    /\ pc = "derive" /\ selfies = symO \o symTripleC \o symC
    /\ Len(derived) = 2 /\ derived[2].text = <<"=", "C">>
    /\ Top.state = -1

\* a branch symbol [BranchL_X] is the symbol to process, at a state of 2..8
BranchAtHand ==
    /\ pc = "derive" /\ Looping(Top) /\ IsBranch(Top.curr_symbol)
    /\ 2 <= Top.state /\ Top.state <= 8

\* the L of [BranchL_X]: the number of index symbols read (line 644)
LevelDigit(symbol) == DigitVal(symbol[Len(symbol) - 3])

\* the X of [BranchL_X]: the branch type (line 259)
TypeDigit(symbol) == DigitVal(symbol[Len(symbol) - 1])

\* the step opens the branch: the branch's activation begins at state init
\* and the activation that met the symbol will resume at state s - init
OpensBranch(s, init) ==
    /\ pc' = "derive" /\ Len(stack') = Len(stack) + 1
    /\ stack'[Len(stack')].state = init
    /\ stack'[Len(stack)].new_state = s - init
    /\ init >= 1 /\ s - init >= 1

\* the step fails with the unknown branch symbol error
FailsUnknownBranch == pc' = "raised" /\ exc' = "ValueError"

\* what a step on a branch symbol at state 2..8 does when n is the number
\* that the symbol carries for the branch states
BranchStepBy(n) ==
    IF n \in 1..3
    THEN pc' = "derive" => OpensBranch(Top.state, Min2(Top.state - 1, n))
    ELSE FailsUnknownBranch

\* the activation that met the branch symbol resumes at its continuation state
ResumesAtContinuation ==
    (pc = "derive" /\ pc' = "derive" /\ Len(stack') = Len(stack) - 1) =>
        stack'[Len(stack')].state = stack[Len(stack')].new_state

\* C12, as the code has it: for [BranchL_X] at state s of 2..8 the
\* branch-initial state is min(s - 1, X) and the continuation state is s minus
\* it, X being the branch type, the digit after '_', and not L, the digit
\* before '_' that says how many index symbols follow; the symbol fails as
\* unknown when X is outside 1..3, whatever L is. Both states are at least 1
\* and sum to s.
C12_BranchStateByType ==
    /\ [][BranchAtHand => BranchStepBy(TypeDigit(Top.curr_symbol))]_vars
    /\ [][ResumesAtContinuation]_vars

\* [Branch1_3] met at state 4: the branch begins at state 3 and the chain
\* will resume at state 1
C12_Witness ==
    /\ pc = "derive" /\ Len(stack) = 2
    /\ stack[1].curr_symbol = Branch(1, 3)
    /\ stack[2].state = 3 /\ stack[1].new_state = 1

\* C12, as stated: the number that gives the branch-initial state, and that
\* must lie in 1..3, is the level, the number of index symbols of the symbol.
C12_AsStated == [][BranchAtHand => BranchStepBy(LevelDigit(Top.curr_symbol))]_vars

\* the characters that end the search for the ']' of a '[': the brackets, and
\* the dot at which the decoder splits its input into fragments
Delimiters == {"[", "]", "."}

\* the '[' at i has no matching ']': the next delimiter after it, if any, is
\* not a ']'
UnmatchedAt(x, i) ==
    /\ x[i] = "["
    /\ \A j \in (i + 1)..Len(x) :
           x[j] = "]" => \E m \in (i + 1)..(j - 1) : x[m] \in Delimiters

UnmatchedBracket(x) == \E i \in 1..Len(x) : UnmatchedAt(x, i)

\* C13: a decoder call on an input with a fragment in which some '[' has no
\* matching ']' ends with the malformed-brackets error, that is, the decoder
\* returns None, wherever the unmatched bracket stands, also after a symbol at
\* which the derivation has reached the terminal state.
C13_UnmatchedBracketFails ==
    (DecoderOver /\ UnmatchedBracket(selfies)) =>
        (outcome = "None" /\ exc = "ValueError")

RECURSIVE After(_, _)
\* the stream gen after n symbols were asked of it
After(gen, n) == IF n = 0 THEN gen ELSE After(GenNext(gen).gen, n - 1)

\* the symbols n + 1 .. n + m that the stream gen gives, '' once it is exhausted
Given(gen, n, m) == [i \in 1..m |-> GenNext(After(gen, n + i - 1)).sym]

\* the number that the first L symbols of the stream gen encode
SpanLength(gen, L) == get_n_from_symbols(Given(gen, 0, L))

\* a branch symbol is the symbol to process at a state above 1, and the step
\* enters the branch
BranchEntered ==
    /\ pc = "derive" /\ Looping(Top) /\ IsBranch(Top.curr_symbol) /\ Top.state > 1
    /\ pc' = "derive"

\* the step has taken L index symbols and N + 1 body symbols from the stream
\* gen of the activation at the top, and has begun an activation that has the
\* N + 1 body symbols as its whole stream and the same parent atom
TakesSpan(gen, L, N) ==
    /\ Len(stack') = Len(stack) + 1
    /\ stack'[Len(stack)].gen = After(gen, L + N + 1)
    /\ stack'[Len(stack)].prev_idx = Top.prev_idx
    /\ stack'[Len(stack')].gen.kind = "list"
    /\ stack'[Len(stack')].gen.src = Given(gen, L, N + 1)
    /\ stack'[Len(stack')].curr_symbol = GenNext(_parse_selfies_symbols(Given(gen, L, N + 1))).sym
    /\ stack'[Len(stack')].prev_idx = Top.prev_idx

TakesSpanOf(gen, L) == TakesSpan(gen, L, SpanLength(gen, L))

\* a step in the derivation leaves the suspended activations as they are
SuspendedUntouched ==
    (pc = "derive" /\ pc' = "derive") =>
        \A k \in 1..(Len(stack) - 1) : k < Len(stack') => stack'[k] = stack[k]

\* the activation of a branch ends: its caller goes on with the symbol that
\* follows the span in its own stream, at the continuation state, with the
\* parent atom it had
ResumesAfterSpan ==
    (pc = "derive" /\ pc' = "derive" /\ Len(stack') = Len(stack) - 1) =>
        /\ stack'[Len(stack')].gen = GenNext(stack[Len(stack')].gen).gen
        /\ stack'[Len(stack')].curr_symbol = GenNext(stack[Len(stack')].gen).sym
        /\ stack'[Len(stack')].state = stack[Len(stack')].new_state
        /\ stack'[Len(stack')].prev_idx = stack[Len(stack')].prev_idx

\* C14: a branch symbol [BranchL_X] met at a state above 1 takes exactly L
\* index symbols, which encode N, and then exactly N + 1 body symbols from the
\* stream it stands in, empty symbols once the stream is exhausted; the
\* derivation of the branch has those N + 1 symbols as its whole stream;
\* whether it uses them all or stops early, the chain that met the branch
\* symbol resumes at the symbol after the span, at the continuation state and
\* with the parent atom it had before the branch.
C14_BranchConsumesFixedSpan ==
    /\ [][BranchEntered => TakesSpanOf(Top.gen, LevelDigit(Top.curr_symbol))]_vars
    /\ [][SuspendedUntouched]_vars
    /\ [][ResumesAfterSpan]_vars

\* '[C][Branch1_2][Ring1][F][C][O]': the branch of two symbols stopped at [F],
\* and the chain has resumed at [O] with the first atom as parent
C14_Witness ==
    /\ pc = "derive" /\ Len(stack) = 1
    /\ selfies = symC \o Branch(1, 2) \o symRing1 \o symF \o symC \o symO
    /\ Len(derived) = 2 /\ derived[2].text = <<"F">>
    /\ Top.curr_symbol = symO /\ Top.prev_idx = 0 /\ Top.state = 2

\* a branch symbol of a known type is the symbol to process at state 0 or 1
BranchWithoutRoom ==
    /\ IsBranch(Top.curr_symbol) /\ Top.state \in {0, 1}
    /\ TypeDigit(Top.curr_symbol) \in 1..3

\* a ring symbol is the symbol to process at state 0
RingWithoutRoom == IsRing(Top.curr_symbol) /\ Top.state = 0

\* the step passes over the symbol at hand: the activation goes on with the
\* symbol that follows it in the stream, and nothing else changes
PassesOver ==
    /\ Len(stack') = Len(stack)
    /\ stack'[Len(stack)] = [Top EXCEPT !.gen = GenNext(Top.gen).gen,
                                        !.curr_symbol = GenNext(Top.gen).sym]
    /\ \A k \in 1..(Len(stack) - 1) : stack'[k] = stack[k]
    /\ derived' = derived /\ branches' = branches /\ rings' = rings

\* C15: a branch symbol met at state 0 or 1 and a ring symbol met at state 0
\* are passed over: no index symbol and no body symbol is read, no branch and
\* no ring is recorded, no atom is derived, and the state, the parent index and
\* the derived list stay as they are; the symbol that follows is the next
\* symbol to be processed, as any other symbol.
C15_NoRoomLeniency ==
    [][(pc = "derive" /\ Looping(Top) /\ (BranchWithoutRoom \/ RingWithoutRoom)
        /\ pc' = "derive") => PassesOver]_vars

\* '[O][Branch1_1][C]' under a table that gives O one bond: the branch symbol
\* met at state 1 was passed over and [C] is the symbol to process
C15_Witness ==
    /\ pc = "derive" /\ Len(stack) = 1
    /\ selfies = symO \o Branch(1, 1) \o symC
    /\ Len(derived) = 1 /\ Top.state = 1 /\ Top.prev_idx = 0
    /\ Top.curr_symbol = symC /\ branches = <<>>

\* no two registered spans have the same start
DistinctStarts(b) ==
    \A i, j \in 1..Len(b) : b[i].lb = b[j].lb => i = j

\* every registered span lies within the derived atoms, after the first one
SpansWithin(b, natoms) ==
    \A i \in 1..Len(b) : 1 <= b[i].lb /\ b[i].lb <= b[i].rb /\ b[i].rb < natoms

RECURSIVE ParenDepth(_, _)
\* the number of '(' less the number of ')' among the first n characters
ParenDepth(text, n) ==
    IF n = 0 THEN 0
    ELSE ParenDepth(text, n - 1)
         + (IF text[n] = "(" THEN 1 ELSE IF text[n] = ")" THEN -1 ELSE 0)

\* balanced, every '(' before its ')', and no '(' at the very beginning
WellParenthesized(text) ==
    /\ ParenDepth(text, Len(text)) = 0
    /\ \A n \in 1..Len(text) : ParenDepth(text, n) >= 0
    /\ text # <<>> => text[1] # "("

\* C16: at every point of the derivation of a fragment, and after it, no two
\* registered branch spans share a start and every registered span has
\* 1 <= start <= end < number of derived atoms; the translation of every
\* fragment has balanced parentheses, every '(' before its ')', and does not
\* begin with '('.
C16_BranchSpansWellFormed ==
    /\ DistinctStarts(branches)
    /\ SpansWithin(branches, Len(derived))
    /\ \A k \in 1..Len(emitted) : WellParenthesized(emitted[k].smiles)

\* '[C][Branch1_2][Branch1_1][Branch1_1][C][F][O][N]': a branch begins with a
\* branch; the start of the outer one, 1, was taken by the inner one and was
\* moved to 2
C16_Witness ==
    /\ pc = "format" /\ branches = <<[lb |-> 1, rb |-> 1], [lb |-> 2, rb |-> 2]>>
    /\ selfies = symC \o Branch(1, 2) \o Branch(1, 1) \o Branch(1, 1) \o symC \o symF \o symO \o symN

\* a ring tuple is to be resolved
RingAtHand == pc = "rings" /\ ring_k <= Len(rings)

TheRing == rings[ring_k]

LeftCap == derived[TheRing.left + 1].cap

RightCap == derived[TheRing.right + 1].cap

\* the tuple is skipped: a ring to the same atom, or an end with no room
RingSkipped == TheRing.left = TheRing.right \/ LeftCap <= 0 \/ RightCap <= 0

\* the left atom of the tuple is the atom that the right atom is bonded to
RingOnBond == derived[TheRing.right + 1].parent = TheRing.left

BondOrderOf(bond) == IF bond = <<"=">> THEN 2 ELSE IF bond = <<"#">> THEN 3 ELSE 1

\* the order of the ring: the requested one, capped by both capacities
RingOrderUsed == Min3(BondOrderOf(TheRing.bond), LeftCap, RightCap)

\* the bond symbol of the ring, derived anew when the order was capped
RingBondUsed ==
    IF RingOrderUsed < BondOrderOf(TheRing.bond) THEN OrderChar(RingOrderUsed)
    ELSE TheRing.bond

PairIn(locs, left, right) == \E i \in 1..Len(locs) : locs[i].loc = <<left, right>>

\* the resolved pairs after a ring of the given order and bond symbol between
\* left and right: merged with the pair when it is there, else a new pair
PairAdded(locs, left, right, order, bond) ==
    IF PairIn(locs, left, right)
    THEN [i \in 1..Len(locs) |->
             IF locs[i].loc = <<left, right>>
             THEN [loc |-> locs[i].loc,
                   bond |-> OrderChar(Min2(BondOrderOf(locs[i].bond) + order, 3))]
             ELSE locs[i]]
    ELSE Append(locs, [loc |-> <<left, right>>, bond |-> bond])

\* the closure number k as it is written: 7 as '7', 12 as '%12'
ClosureNumber(k) ==
    IF k < 10 THEN <<DigitChar(k)>>
    ELSE <<"%", DigitChar(k \div 10), DigitChar(k % 10)>>

RECURSIVE ClosuresOf(_, _, _)
\* the labels of the atom, of the k-th resolved pair and the pairs after it
ClosuresOf(locs, atom, k) ==
    IF k > Len(locs) THEN <<>>
    ELSE (IF atom = locs[k].loc[1] \/ atom = locs[k].loc[2]
          THEN locs[k].bond \o ClosureNumber(k) ELSE <<>>)
         \o ClosuresOf(locs, atom, k + 1)

\* the resolved pairs are distinct pairs of two distinct atoms
DistinctPairs ==
    \A i, j \in 1..Len(ring_locs) :
        /\ ring_locs[i].loc[1] # ring_locs[i].loc[2]
        /\ ring_locs[i].loc = ring_locs[j].loc => i = j

\* a ring tuple that is not skipped and whose atoms are not bonded is
\* resolved into the pairs, and no atom's text changes
ResolvedIntoPairs ==
    (RingAtHand /\ ~RingSkipped /\ ~RingOnBond) =>
        /\ ring_locs' = PairAdded(ring_locs, TheRing.left, TheRing.right,
                                  RingOrderUsed, RingBondUsed)
        /\ \A i \in 1..Len(derived) : derived'[i].text = derived[i].text

\* the emission: every atom gets the labels of the pairs it is an end of
LabelsEmitted ==
    (pc = "rings" /\ pc' = "format") =>
        \A i \in 1..Len(derived) :
            derived'[i].text = derived[i].text \o ClosuresOf(ring_locs, i - 1, 1)

\* C17: the k-th distinct resolved pair, in the order of insertion, gets the
\* number k from 1 on, written as its digit below ten and with '%' before two
\* digits; bond symbol and number are appended to the texts of the two atoms of
\* the pair and to no other; a pair asked for by several ring tuples is one
\* pair, with the bond of order min(sum of the orders, 3). So every label is
\* there exactly twice.
C17_RingLabelsPaired ==
    /\ []DistinctPairs
    /\ [][ResolvedIntoPairs]_vars
    /\ [][LabelsEmitted]_vars

\* the ten rings of a chain are emitted: the tenth is written '%10'
C17_Witness ==
    /\ pc = "format" /\ Len(ring_locs) = 10
    /\ derived[Len(derived)].text = <<"C", "%", "1", "0">>

\* the text of the right atom of the ring
RightText == derived[TheRing.right + 1].text

\* the bond that the right atom is attached with, as its text begins
ExistingBond == IF RightText[1] \in OldBondChars THEN <<RightText[1]>> ELSE <<>>

\* the text of the right atom with the bond character for order n in front
RightTextWithOrder(n) ==
    OrderChar(n) \o SubSeq(RightText, Len(ExistingBond) + 1, Len(RightText))

\* C18: a ring tuple whose left atom is the atom that the right atom is bonded
\* to, both with a capacity above 0: no pair is registered, so no closure
\* digit will be emitted for it; the bond character in front of the right
\* atom's text is replaced by the one for the order
\* min(existing order + ring order, 3), the ring order being
\* min(requested, left capacity, right capacity); no other text changes.
C18_RingOnBondRaisesOrder ==
    [][(RingAtHand /\ ~RingSkipped /\ RingOnBond) =>
          /\ ring_locs' = ring_locs
          /\ derived'[TheRing.right + 1].text =
                 RightTextWithOrder(Min2(BondOrderOf(ExistingBond) + RingOrderUsed, 3))
          /\ \A i \in 1..Len(derived) :
                 i # TheRing.right + 1 => derived'[i].text = derived[i].text]_vars

\* '[C][=C][Ring1]': the double bond between the two atoms became a triple one
C18_Witness ==
    /\ pc = "rings" /\ ring_k = 2 /\ selfies = symC \o symDoubleC \o symRing1
    /\ derived[2].text = <<"#", "C">> /\ ring_locs = <<>>

\* C19: a ring tuple with left index = right index, or with an end whose
\* capacity is 0 or less when the tuple is processed, is skipped: it registers
\* no pair, so no closure digit comes of it, and it changes no atom's text and
\* no atom's capacity.
C19_SkippedRingLeavesNoTrace ==
    [][(RingAtHand /\ RingSkipped) =>
          (derived' = derived /\ ring_locs' = ring_locs)]_vars

\* the first ring tuple was between two atoms that are not bonded, one of
\* them with no room: it was passed and no pair is registered
C19_Witness ==
    /\ pc = "rings" /\ ring_k = 2 /\ ring_locs = <<>>
    /\ rings[1].left # rings[1].right
    /\ derived[rings[1].right + 1].parent # rings[1].left
    /\ derived[rings[1].right + 1].cap <= 0

BothDone == \A t \in CallIds : calls[t].pc = "done"

\* the preset that a call asks for
PresetOf(c) ==
    IF c = "octet_rule" THEN octet_rule_bond_constraints
    ELSE hypervalent_bond_constraints

\* two calls whose statements interleaved have ended, neither with an
\* exception of its own, and the active table is not the one it was before
LeakAfterInterleaving ==
    /\ BothDone /\ overlap /\ ActiveTable # entry_table
    /\ \A t \in CallIds : calls[t].exit = ""

\* a call has translated under the preset of the other call
ForeignPreset ==
    \E t \in CallIds : /\ calls[t].pc \in {"translated", "done"}
                       /\ calls[t].seen # PresetOf(calls[t].constraints)

\* C20: two decoder calls that both pass a constraints argument. When they
\* run one after the other, the active table after both is the table that was
\* active before both. (When their save, swap and restore statements
\* interleave, a state is reached in which both have ended and the active
\* table is another one, or in which one has translated under the preset of
\* the other: LeakAfterInterleaving, ForeignPreset.)
C20_SerializedCallsRestore == (BothDone /\ ~overlap) => ActiveTable = entry_table

\* the SMILES atom of the symbol at hand, parsed
ParsedAtHand ==
    parse_atom_symbol(SmilesSymbol(Top.curr_symbol, LeadingBond(Top.curr_symbol)))

\* an atom symbol that parses as a SMILES atom is the symbol to process
ParsedAtomAtHand == AtomAtHand /\ ParsedAtHand.err = ""

\* the symbol at hand has more hydrogens than its atom or ion may have bonds,
\* or as many while it has to bond to a parent
ExcessHydrogens ==
    \/ ParsedAtHand.h_count > Lookup(ActiveTable, KeyOfAtom(ParsedAtHand))
    \/ /\ ParsedAtHand.h_count = Lookup(ActiveTable, KeyOfAtom(ParsedAtHand))
       /\ Top.state > 0

\* what get_next_state does with the symbol at hand
ErrorAtHand == get_next_state(Top.curr_symbol, Top.state, ActiveTable).err

\* C21: get_next_state raises the too-many-Hs error exactly when the hydrogen
\* count of the symbol is above the table's entry for its atom or ion, or equal
\* to it at a state above 0, and returns without error otherwise; the
\* derivation that reaches such a symbol fails, and decoder returns None.
C21_HydrogenOverflow ==
    /\ [](ParsedAtomAtHand =>
            IF ExcessHydrogens THEN ErrorAtHand = "ValueError" ELSE ErrorAtHand = "")
    /\ [][(ParsedAtomAtHand /\ ExcessHydrogens) =>
            (pc' = "raised" /\ exc' = "ValueError")]_vars
    /\ []((DecoderOver /\ exc = "ValueError") => (outcome = "None" /\ result = ""))

\* '[C][CH4expl]' under the default table: four hydrogens on an atom of four
\* bonds that has a parent; decoder has returned None
C21_Witness ==
    /\ DecoderOver /\ selfies = symC \o symCH4 /\ entry_table = default_bond_constraints
    /\ exc = "ValueError" /\ outcome = "None"

\* the chain at the top of the stack is at the terminal state
ChainEnded == pc = "derive" /\ Top.state = -1

\* [epsilon] is the symbol to process
EpsilonAtHand == pc = "derive" /\ Looping(Top) /\ Top.curr_symbol = epsilon

\* the step fails: the symbol that is taken next from the stream is malformed
NextSymbolFails == pc' = "raised" /\ exc' = "ValueError"

\* the step derives no atom and records no ring
NothingDerived == derived' = derived /\ rings' = rings

\* the step ends the chain at the top: the derivation is over, or the chain
\* that called it is at the top
ChainLeft == pc' = "rings" \/ (pc' = "derive" /\ Len(stack') = Len(stack) - 1)

\* the step leaves the chain at the top where it is, at state s
ChainAt(s) ==
    pc' = "derive" /\ Len(stack') = Len(stack) /\ stack'[Len(stack')].state = s

\* only the chain at the top can be at the terminal state
OnlyTopEnded == \A k \in 1..(Len(stack) - 1) : stack[k].state >= 0

\* C22: a chain, the main one or the body of a branch, that is at state -1
\* processes no further symbol: the next step leaves it, with no atom derived,
\* no branch opened and no ring recorded; [epsilon] at a state above 0 derives
\* nothing and brings the chain to -1; [epsilon] at state 0 derives nothing
\* and leaves the state at 0.
C22_ChainStopsForGood ==
    /\ []OnlyTopEnded
    /\ [][ChainEnded => (NextSymbolFails \/ (NothingDerived /\ ChainLeft))]_vars
    /\ [][(EpsilonAtHand /\ Top.state > 0) =>
            (NextSymbolFails \/ (NothingDerived /\ ChainAt(-1)))]_vars
    /\ [][(EpsilonAtHand /\ Top.state = 0) =>
            (NextSymbolFails \/ (NothingDerived /\ ChainAt(0)))]_vars

\* '[C][epsilon][C]': [epsilon] has ended the chain, and the [C] after it is
\* at hand and will not be derived
C22_Witness ==
    /\ pc = "derive" /\ selfies = symC \o epsilon \o symC
    /\ Top.state = -1 /\ Top.curr_symbol = symC /\ Len(derived) = 1

\* a ring symbol is the symbol to process, at a state other than 0
RingAsked == pc = "derive" /\ Looping(Top) /\ IsRing(Top.curr_symbol) /\ Top.state # 0

NotBelowZero(n) == IF n < 0 THEN 0 ELSE n

\* the step has appended one tuple to the ring list: from the parent atom of
\* the chain back over N + 1 atoms, but not past the first atom
RingRecorded(N) ==
    /\ Len(rings') = Len(rings) + 1
    /\ SubSeq(rings', 1, Len(rings)) = rings
    /\ rings'[Len(rings')].right = Top.prev_idx
    /\ rings'[Len(rings')].left = NotBelowZero(Top.prev_idx - (N + 1))

\* every tuple of the ring list is between two derived atoms, left first
RingsWithin ==
    \A i \in 1..Len(rings) :
        0 <= rings[i].left /\ rings[i].left <= rings[i].right
        /\ rings[i].right < Len(derived)

\* C23: every tuple (left, right, bond) appended to the ring list has right =
\* the index of the parent atom of the chain and left = max(0, right - (N + 1)),
\* N the number that the index symbols of the ring symbol encode, so
\* 0 <= left <= right < number of derived atoms; no ring symbol is recorded
\* while the chain has no parent atom.
C23_RingTuplesPointAtAtoms ==
    /\ []RingsWithin
    /\ [](RingAsked => Top.prev_idx >= 0)
    /\ [][(RingAsked /\ pc' = "derive") =>
            RingRecorded(SpanLength(Top.gen, DigitVal(ChEnd(Top.curr_symbol, 2))))]_vars
    /\ [][(pc = "derive" /\ pc' = "derive" /\ ~RingAsked) => rings' = rings]_vars

\* '[C][Ring1][Ring1]': the ring over two atoms from the first atom is
\* recorded from atom 0 to atom 0
C23_Witness ==
    /\ pc = "derive" /\ selfies = symC \o symRing1 \o symRing1
    /\ rings = <<[left |-> 0, right |-> 0, bond |-> <<>>]>>

\* the stream has no symbol left to yield
YieldsEmpty(gen) ==
    IF gen.kind = "str" THEN ~(0 <= gen.pos /\ gen.pos < Len(gen.src))
    ELSE \A i \in (gen.pos + 1)..Len(gen.src) : gen.src[i] = <<>>

\* symbol is what the stream has yielded last, the token that ends at its position
YieldedToken(gen, symbol) ==
    IF gen.kind = "str"
    THEN gen.pos >= Len(symbol)
         /\ Slice(gen.src, gen.pos - Len(symbol), gen.pos) = symbol
    ELSE gen.pos >= 1 /\ gen.src[gen.pos] = symbol

\* no '[nop]' is handed to the walker, and after the empty string comes
\* nothing but the empty string
StreamDropsAndEnds ==
    \A k \in 1..Len(stack) :
        /\ stack[k].curr_symbol # nop
        /\ stack[k].curr_symbol = <<>> => YieldsEmpty(stack[k].gen)

\* an iteration of the loop of a chain ends with the next token of its
\* stream, further on than the one before, or with the empty string
TokensOnce ==
    (pc = "derive" /\ pc' = "derive" /\ Len(stack') = Len(stack))
        => /\ stack'[Len(stack')].gen.src = Top.gen.src
           /\ IF stack'[Len(stack')].curr_symbol = <<>>
              THEN stack'[Len(stack')].gen.pos >= Top.gen.pos
              ELSE /\ stack'[Len(stack')].gen.pos > Top.gen.pos
                   /\ YieldedToken(stack'[Len(stack')].gen, stack'[Len(stack')].curr_symbol)

\* at the empty string or at a terminal state the activation is left
LoopStops ==
    (pc = "derive" /\ (Top.curr_symbol = <<>> \/ Top.state < 0))
        => \/ pc' = "rings" /\ Len(stack) = 1
           \/ pc' = "derive" /\ Len(stack') = Len(stack) - 1
           \/ pc' = "raised"

\* the activation of a branch reads a list, the main chain the string
FiniteBodies ==
    \A k \in 1..Len(stack) :
        /\ stack[k].gen.kind = (IF k = 1 THEN "str" ELSE "list")
        /\ stack[k].gen.pos <= Len(stack[k].gen.src)

\* the ring resolver goes through the ring list from its first tuple to its last
OnePass ==
    pc = "rings"
        => \/ pc' = "rings" /\ ring_k <= Len(rings) /\ ring_k' = ring_k + 1 /\ rings' = rings
           \/ pc' = "format" /\ ring_k = Len(rings) + 1

\* every decoder call that is under way comes to its end
DecodeTerminates ==
    /\ Running ~> DecoderOver
    /\ []StreamDropsAndEnds
    /\ []FiniteBodies
    /\ [][TokensOnce]_vars
    /\ [][LoopStops]_vars
    /\ [][OnePass]_vars

\* C24: decode terminates on every finite input: the symbol stream yields
\* each bracketed token once, drops '[nop]' tokens and then yields the empty
\* string for ever, every loop of the derivation walker stops at the first
\* empty string or terminal state, each branch recursion works on a finite
\* body, and the ring resolver makes one pass over the ring list, so the call
\* ends with a string or a failure (None).
C24_DecodeEndsWithStringOrFailure ==
    /\ DecodeTerminates
    /\ [](DecoderOver => outcome \in {"smiles", "None"})

====
